---- MODULE Spec2Model ----
(***************************************************************************)
(* Model of the parsing-combinator engine of lanzz/abnf                    *)
(* (src/rfc/parse/rules.py, src/rfc/parse/wrappers.py).                    *)
(*                                                                         *)
(* A string is a sequence of characters, a character a one-element TLA+    *)
(* string.  A rule is a record whose "kind" names its class.  A Context is *)
(* an ordered mapping: a sequence of [k, v] pairs with distinct keys.      *)
(* parse(s, context) mutates the context object it is given and returns a  *)
(* context object; an outcome therefore records the returned context       *)
(* (ctx), whether it is the very object that was passed in (same) and the  *)
(* final contents of the object that was passed in (arg), also when the    *)
(* call raised.                                                            *)
(***************************************************************************)
EXTENDS Naturals, Integers, Sequences, FiniteSets, TLC

VARIABLES rule, input, partial, pc, result, built, seen

vars == <<rule, input, partial, pc, result, built, seen>>

(***************************************************************************)
(* Bounds of the model.                                                    *)
(***************************************************************************)
MaxLen == 3

MaxCount == 2

MaxSeen == 2

(***************************************************************************)
(* Strings.                                                                *)
(***************************************************************************)
Take(s, n) == SubSeq(s, 1, IF n < Len(s) THEN n ELSE Len(s))

Drop(s, n) == SubSeq(s, (IF n < Len(s) THEN n ELSE Len(s)) + 1, Len(s))

StartsWith(s, p) == Len(p) <= Len(s) /\ SubSeq(s, 1, Len(p)) = p

RECURSIVE Join(_)
Join(ss) == IF ss = <<>> THEN <<>> ELSE Head(ss) \o Join(Tail(ss))

\* str.casefold of one character: "A" folds to "a", and U+00DF (sharp s)
\* folds to the two characters "ss"; the other characters are their own fold.
FoldChar(c) ==
    CASE c = "A" -> <<"a">>
      [] c = "Z" -> <<"z">>
      [] c = "U+00DF" -> <<"s", "s">>
      [] OTHER -> <<c>>

RECURSIVE casefold(_)
casefold(s) == IF s = <<>> THEN <<>> ELSE FoldChar(Head(s)) \o casefold(Tail(s))

IsSpace(c) == c \in {" ", "\t"}

RECURSIVE lstrip(_)
lstrip(s) == IF s # <<>> /\ IsSpace(Head(s)) THEN lstrip(Tail(s)) ELSE s

(***************************************************************************)
(* Values held by a context: text, a list of contexts, a context.          *)
(***************************************************************************)
Str(s) == [t |-> "str", v |-> s]

List(cs) == [t |-> "list", v |-> cs]

Ctx(c) == [t |-> "ctx", v |-> c]

(***************************************************************************)
(* Context: the ordered mapping threaded through a parse.                  *)
(***************************************************************************)
EmptyContext == <<>>

Has(context, key) == \E i \in 1..Len(context) : context[i].k = key

Get(context, key) == context[CHOOSE i \in 1..Len(context) : context[i].k = key].v

Put(context, key, value) ==
    IF Has(context, key)
    THEN [i \in 1..Len(context) |->
            IF context[i].k = key THEN [k |-> key, v |-> value] ELSE context[i]]
    ELSE Append(context, [k |-> key, v |-> value])

RECURSIVE Update(_, _)
Update(context, other) ==
    IF other = <<>> THEN context
    ELSE Update(Put(context, Head(other).k, Head(other).v), Tail(other))

Del(context, key) == SelectSeq(context, LAMBDA p : p.k # key)

Copy(context) == context

IsReserved(key) == key \in {"_match", "_unparsed", "_capturable", "_private"}

Clean(context) == SelectSeq(context, LAMBDA p : ~IsReserved(p.k))

Keys(context) == {context[i].k : i \in 1..Len(context)}

(***************************************************************************)
(* Outcomes of parse.                                                      *)
(***************************************************************************)
NoRule == [kind |-> "None"]

\* a context is returned
Ok(ctx, same, arg, log) ==
    [kind |-> "ok", ctx |-> ctx, same |-> same, arg |-> arg,
     rule |-> NoRule, unparsed |-> <<>>, log |-> log]

\* NoMatchError(rule=..., unparsed=...) is raised
NoMatch(r, unparsed, arg, log) ==
    [kind |-> "nomatch", ctx |-> <<>>, same |-> FALSE, arg |-> arg,
     rule |-> r, unparsed |-> unparsed, log |-> log]

\* RuntimeError (a zero-length match) is raised by rule r
Fatal(r, arg, log) ==
    [kind |-> "fatal", ctx |-> <<>>, same |-> FALSE, arg |-> arg,
     rule |-> r, unparsed |-> <<>>, log |-> log]

\* any other exception (KeyError, NameError, ...) is raised by rule r
Crash(r, arg, log) ==
    [kind |-> "error", ctx |-> <<>>, same |-> FALSE, arg |-> arg,
     rule |-> r, unparsed |-> <<>>, log |-> log]

\* one entry of the call log: r.parse(s, ...) was entered at call depth d
\* (ev = "enter"), or left (ev = "ok": it returned a context whose _match is m
\* and whose _unparsed is u; ev = "nomatch", "fatal", "error": it raised, the
\* exception coming from rule by, a NoMatchError carrying unparsed u); keys
\* are the keys of the context the call was given (of the context it
\* returned)
Event(ev, d, r, s, u, m, by, keys) ==
    [ev |-> ev, d |-> d, rule |-> r, s |-> s, u |-> u, m |-> m, by |-> by,
     keys |-> keys]

(***************************************************************************)
(* Rule constructors.                                                      *)
(***************************************************************************)
Unbounded == -1

WS == [kind |-> "WS"]

Literal(literals, fold) ==
    [kind |-> "Literal",
     literals |-> IF fold THEN [i \in 1..Len(literals) |-> casefold(literals[i])]
                          ELSE literals,
     casefold |-> fold]

LiteralCS(literals) == Literal(literals, FALSE)

\* a value that is not a Rule (a plain string given where a rule is expected)
Plain(s) == [kind |-> "str", value |-> s]

ensure_rule(value) ==
    IF value.kind = "str" THEN Literal(<<value.value>>, TRUE) ELSE value

Chars(chars, exclude, min, max) ==
    [kind |-> "Chars", chars |-> chars, exclude |-> exclude, min |-> min, max |-> max]

\* chars / exclude: a set of characters, or None
NoneSet == [none |-> TRUE, set |-> {}]

CharSet(S) == [none |-> FALSE, set |-> S]

Sequence(rules) ==
    [kind |-> "Sequence", rules |-> [i \in 1..Len(rules) |-> ensure_rule(rules[i])]]

Alternatives(rules) ==
    [kind |-> "Alternatives", rules |-> [i \in 1..Len(rules) |-> ensure_rule(rules[i])]]

FullMatch(r) == [kind |-> "FullMatch", rule |-> ensure_rule(r)]

Optional(r, default) == [kind |-> "Optional", rule |-> ensure_rule(r), default |-> default]

Capture(r, name, transform, raw) ==
    [kind |-> "Capture", rule |-> ensure_rule(r), name |-> name,
     transform |-> transform, raw |-> raw]

Transform(r, fn) == [kind |-> "Transform", rule |-> ensure_rule(r), fn |-> fn]

Ignore(r) == Transform(r, "ignore")

CaseFold(r) == Transform(r, "casefold")

AssertRule(r, condition) ==
    [kind |-> "Assert", rule |-> ensure_rule(r), condition |-> condition]

NoDelimiter == [kind |-> "NoneType"]

Repeat(r, delimiter, min, max) ==
    [kind |-> "Repeat", rule |-> ensure_rule(r),
     delimiter |-> ensure_rule(delimiter),
     min |-> min, max |-> max]

\* Mapping: a Repeat with the names of the key and of the value of a pair
\* (key_name or 'key', value_name or 'value')
Mapping(r, delimiter, min, max, key_name, value_name) ==
    [kind |-> "Mapping", rule |-> ensure_rule(r),
     delimiter |-> ensure_rule(delimiter),
     min |-> min, max |-> max,
     key_name |-> IF key_name = "None" THEN "key" ELSE key_name,
     value_name |-> IF value_name = "None" THEN "value" ELSE value_name]

\* Reference: fn is a resolver that returns the same rule for every context
Reference(fn) == [kind |-> "Reference", fn |-> fn]

\* Rule.__add__ / Sequence.__add__
Add(a, b) ==
    LET other == ensure_rule(b)
    IN  IF a.kind = "Sequence"
        THEN IF other.kind = "Sequence"
             THEN Sequence(a.rules \o other.rules)
             ELSE Sequence(a.rules \o <<other>>)
        ELSE Sequence(<<a, other>>)

\* Rule.__mul__ / Sequence.__mul__
Mul(a, b) ==
    LET other == ensure_rule(b)
    IN  IF a.kind = "Sequence"
        THEN IF other.kind = "Sequence"
             THEN Sequence(a.rules \o <<WS>> \o other.rules)
             ELSE Sequence(a.rules \o <<WS, other>>)
        ELSE Sequence(<<a, WS, other>>)

\* Rule.__or__ / Alternatives.__or__
Or(a, b) ==
    LET other == ensure_rule(b)
    IN  IF a.kind = "Alternatives"
        THEN Alternatives(a.rules \o <<other>>)
        ELSE Alternatives(<<a, other>>)

\* Rule.__radd__ / Sequence.__radd__: other + self
RAdd(a, b) ==
    LET other == ensure_rule(b)
    IN  IF a.kind = "Sequence"
        THEN IF other.kind = "Sequence"
             THEN Sequence(other.rules \o a.rules)
             ELSE Sequence(<<other>> \o a.rules)
        ELSE Sequence(<<other, a>>)

\* Rule.__rmul__ / Sequence.__rmul__: other * self
RMul(a, b) ==
    LET other == ensure_rule(b)
    IN  IF a.kind = "Sequence"
        THEN IF other.kind = "Sequence"
             THEN Sequence(other.rules \o <<WS>> \o a.rules)
             ELSE Sequence(<<other, WS>> \o a.rules)
        ELSE Sequence(<<other, WS, a>>)

\* Rule.__ror__ / Alternatives.__ror__: other | self
ROr(a, b) ==
    LET other == ensure_rule(b)
    IN  IF a.kind = "Alternatives"
        THEN Alternatives(<<other>> \o a.rules)
        ELSE Alternatives(<<other, a>>)

\* Rule.__invert__ / Optional.__invert__: ~self
Invert(self) == IF self.kind = "Optional" THEN self ELSE Optional(self, <<>>)

\* Capture.__pos__: +self
Pos(self) == Capture(self.rule, self.name, "None", TRUE)

(***************************************************************************)
(* Item selectors: rule[item].  None is the value NoDelimiter, a str is    *)
(* Plain(s).                                                               *)
(***************************************************************************)
Number(n) == [kind |-> "int", n |-> n]

\* a str used as the name of a capture
Name(n) == [kind |-> "str", name |-> n]

Fn(f) == [kind |-> "function", value |-> f]

Slice(start, stop, step) ==
    [kind |-> "slice", start |-> start, stop |-> stop, step |-> step]

\* the exception raised for a selector of a wrong type
KeyError == [kind |-> "KeyError"]

\* min=item.start or 0
StartOf(item) == IF item.start.kind = "int" THEN item.start.n ELSE 0

\* max=item.stop
StopOf(item) == IF item.stop.kind = "int" THEN item.stop.n ELSE Unbounded

\* Rule.__getitem__
RuleGetItem(self, item) ==
    CASE item.kind = "str" -> Capture(self, item.name, "None", FALSE)
      [] item.kind = "slice" /\ item.start.kind = "str" ->
            Capture(self, item.start.name,
                    IF item.stop.kind = "function" THEN item.stop.value ELSE "None",
                    FALSE)
      [] item.kind \in {"int", "slice"} ->
            LET reps == IF item.kind = "int"
                        THEN [min |-> item.n, max |-> item.n,
                              delimiter |-> NoDelimiter]
                        ELSE [min |-> StartOf(item), max |-> StopOf(item),
                              delimiter |-> item.step]
            IN  IF reps.min = 0 /\ reps.max = 1 THEN Optional(self, <<>>)
                ELSE Repeat(self, reps.delimiter, reps.min, reps.max)
      [] OTHER -> KeyError

\* CharsGetItem as it would be without the override: the selector is handled
\* as for any rule
CharsGetItemWrapped(self, item) == RuleGetItem(self, item)

\* Chars.__getitem__
CharsGetItem(self, item) ==
    CASE item.kind = "int" -> Chars(self.chars, self.exclude, item.n, item.n)
      [] item.kind = "slice" /\ item.start.kind # "str" /\ item.step = NoDelimiter ->
            Chars(self.chars, self.exclude, StartOf(item), StopOf(item))
      [] OTHER -> RuleGetItem(self, item)

\* Repeat.__getitem__ (inherited by Mapping)
RepeatGetItem(self, item) ==
    CASE item.kind = "int" -> Repeat(self.rule, self.delimiter, item.n, item.n)
      [] item.kind = "slice" /\ item.start.kind # "str" ->
            Repeat(self.rule, self.delimiter, StartOf(item), StopOf(item))
      [] OTHER -> RuleGetItem(self, item)

\* self[item]
GetItem(self, item) ==
    CASE self.kind = "Chars" -> CharsGetItem(self, item)
      [] self.kind \in {"Repeat", "Mapping"} -> RepeatGetItem(self, item)
      [] OTHER -> RuleGetItem(self, item)

\* Operator as it would be if + on a Sequence and | on an Alternatives
\* appended to the children of self, and indexing set the bounds of self
OperatorInPlace(o, self) ==
    LET out == CASE o.name = "add" -> Add(self, o.arg)
                 [] o.name = "or" -> Or(self, o.arg)
                 [] o.name = "item" -> GetItem(self, o.arg)
                 [] o.name = "radd" -> RAdd(self, o.arg)
                 [] o.name = "mul" -> Mul(self, o.arg)
                 [] o.name = "rmul" -> RMul(self, o.arg)
                 [] o.name = "ror" -> ROr(self, o.arg)
                 [] o.name = "invert" -> Invert(self)
                 [] OTHER -> Pos(self)
    IN  [self |-> IF out.kind = self.kind THEN out ELSE self,
         other |-> o.arg,
         fresh |-> ~(o.name = "invert" /\ self.kind = "Optional"),
         out |-> out]

\* a composition operator applied to self: the rule it returns (out), self
\* and the other operand as the call leaves them (no operator assigns to a
\* field of either), and whether the rule returned is a newly constructed
\* one (every operator returns the value of a constructor call, except
\* Optional.__invert__, which returns self)
Operator(o, self) ==
    [self |-> self,
     other |-> o.arg,
     fresh |-> ~(o.name = "invert" /\ self.kind = "Optional"),
     out |-> CASE o.name = "add" -> Add(self, o.arg)
               [] o.name = "radd" -> RAdd(self, o.arg)
               [] o.name = "mul" -> Mul(self, o.arg)
               [] o.name = "rmul" -> RMul(self, o.arg)
               [] o.name = "or" -> Or(self, o.arg)
               [] o.name = "ror" -> ROr(self, o.arg)
               [] o.name = "invert" -> Invert(self)
               [] o.name = "item" -> GetItem(self, o.arg)
               [] OTHER -> Pos(self)]

(***************************************************************************)
(* The functions a grammar hands to Transform, Capture and Assert.         *)
(***************************************************************************)
\* Transform.fn / Capture.transform applied to a value
ApplyFn(fn, value) ==
    CASE fn = "ignore" -> Str(<<>>)
      [] fn = "casefold" -> Str(casefold(value.v))
      [] fn = "star" -> Str(<<"*">>)
      [] fn = "len" -> [t |-> "int", v |-> Len(value.v)]
      [] OTHER -> value

\* Assert.condition applied to a context
Holds(condition, context) ==
    CASE condition = "always" -> TRUE
      [] condition = "never" -> FALSE
      [] condition = "single" -> Len(Get(context, "_match").v) = 1
      [] OTHER -> TRUE

(***************************************************************************)
(* Leaf rules.                                                             *)
(***************************************************************************)
\* the context after context.update(_match=match, _unparsed=unparsed)
Matched(context, match, unparsed) ==
    Update(context, <<[k |-> "_match", v |-> Str(match)],
                      [k |-> "_unparsed", v |-> Str(unparsed)]>>)

WSParse(r, s, context) ==
    LET c == Matched(context, <<>>, lstrip(s))
    IN  Ok(c, TRUE, c, <<>>)

\* LiteralParse as it would be if the remainder were cut from the case-folded
\* input
LiteralParseFolded(r, s, context) ==
    LET cs == IF r.casefold THEN casefold(s) ELSE s
        hits == {i \in 1..Len(r.literals) : StartsWith(cs, r.literals[i])}
    IN  IF hits = {} THEN NoMatch(r, s, context, <<>>)
        ELSE LET first == CHOOSE i \in hits : \A j \in hits : i <= j
                 match_len == Len(r.literals[first])
                 c == Matched(context, Take(cs, match_len), Drop(cs, match_len))
             IN  Ok(c, TRUE, c, <<>>)

LiteralParse(r, s, context) ==
    LET cs == IF r.casefold THEN casefold(s) ELSE s
        hits == {i \in 1..Len(r.literals) : StartsWith(cs, r.literals[i])}
    IN  IF hits = {} THEN NoMatch(r, s, context, <<>>)
        ELSE LET first == CHOOSE i \in hits : \A j \in hits : i <= j
                 match_len == Len(r.literals[first])
                 c == Matched(context, Take(cs, match_len), Drop(s, match_len))
             IN  Ok(c, TRUE, c, <<>>)

_predicate(r, c) ==
    IF r.exclude.none THEN c \in r.chars.set
    ELSE IF r.chars.none THEN c \notin r.exclude.set
    ELSE c \in r.chars.set /\ c \notin r.exclude.set

\* the number of leading characters of s that satisfy the predicate
RECURSIVE Run(_, _)
Run(r, s) == IF s # <<>> /\ _predicate(r, Head(s)) THEN 1 + Run(r, Tail(s)) ELSE 0

\* CharsParse as it would be if the run were not clamped to max
CharsParseUnclamped(r, s, context) ==
    LET match_len == IF r.chars.none /\ r.exclude.none THEN Len(s) ELSE Run(r, s)
    IN  IF match_len < r.min THEN NoMatch(r, s, context, <<>>)
        ELSE LET c == Matched(context, Take(s, match_len), Drop(s, match_len))
             IN  Ok(c, TRUE, c, <<>>)

CharsParse(r, s, context) ==
    LET scanned == IF r.chars.none /\ r.exclude.none THEN Len(s) ELSE Run(r, s)
        match_len == IF r.max # Unbounded /\ r.max < scanned THEN r.max ELSE scanned
    IN  IF match_len < r.min THEN NoMatch(r, s, context, <<>>)
        ELSE LET c == Matched(context, Take(s, match_len), Drop(s, match_len))
             IN  Ok(c, TRUE, c, <<>>)

(***************************************************************************)
(* Combinators.  Parse dispatches on the class of the rule and keeps the   *)
(* call log; the loops of Sequence, Alternatives and Repeat are recursive  *)
(* operators over the position in the loop.                                *)
(***************************************************************************)
RECURSIVE Parse(_, _, _, _)
RECURSIVE SequenceLoop(_, _, _, _, _, _)
RECURSIVE AlternativesLoop(_, _, _, _, _, _)
RECURSIVE RepeatLoop(_, _, _, _, _, _, _, _)

\* SequenceLoop as it would be if a child's text were gathered before the
\* context the child returned is merged into the Sequence's own
RECURSIVE SequenceLoopStale(_, _, _, _, _, _)
SequenceLoopStale(r, i, context, matches, log, d) ==
    IF i > Len(r.rules)
    THEN LET c == Put(context, "_match", Str(Join(matches)))
         IN  Ok(c, TRUE, c, log)
    ELSE LET o == Parse(r.rules[i], Get(context, "_unparsed").v, context, d + 1)
         IN  IF o.kind # "ok"
             THEN [o EXCEPT !.log = log \o o.log]
             ELSE IF ~Has(o.arg, "_match")
             THEN Crash(r, o.arg, log \o o.log)
             ELSE LET merged == IF o.same THEN o.ctx ELSE Update(o.arg, o.ctx)
                      c == IF Has(merged, "_capturable")
                           THEN Del(merged, "_capturable") ELSE merged
                  IN  SequenceLoopStale(r, i + 1, c,
                                        Append(matches, Get(o.arg, "_match").v),
                                        log \o o.log, d)

\* SequenceLoop as it would be if the NoMatchError of a child were caught
\* and raised again in the name of the Sequence
RECURSIVE SequenceLoopReattributed(_, _, _, _, _, _)
SequenceLoopReattributed(r, i, context, matches, log, d) ==
    IF i > Len(r.rules)
    THEN LET c == Put(context, "_match", Str(Join(matches)))
         IN  Ok(c, TRUE, c, log)
    ELSE LET o == Parse(r.rules[i], Get(context, "_unparsed").v, context, d + 1)
         IN  IF o.kind = "nomatch"
             THEN NoMatch(r, o.unparsed, o.arg, log \o o.log)
             ELSE IF o.kind # "ok"
             THEN [o EXCEPT !.log = log \o o.log]
             ELSE LET merged == IF o.same THEN o.ctx ELSE Update(o.arg, o.ctx)
                      c == IF Has(merged, "_capturable")
                           THEN Del(merged, "_capturable") ELSE merged
                  IN  SequenceLoopReattributed(r, i + 1, c,
                                   Append(matches, Get(c, "_match").v),
                                   log \o o.log, d)

\* SequenceLoop as it would be if the structured value a child left were
\* kept in the context
RECURSIVE SequenceLoopKeeping(_, _, _, _, _, _)
SequenceLoopKeeping(r, i, context, matches, log, d) ==
    IF i > Len(r.rules)
    THEN LET c == Put(context, "_match", Str(Join(matches)))
         IN  Ok(c, TRUE, c, log)
    ELSE LET o == Parse(r.rules[i], Get(context, "_unparsed").v, context, d + 1)
         IN  IF o.kind # "ok"
             THEN [o EXCEPT !.log = log \o o.log]
             ELSE LET c == IF o.same THEN o.ctx ELSE Update(o.arg, o.ctx)
                  IN  SequenceLoopKeeping(r, i + 1, c,
                                          Append(matches, Get(c, "_match").v),
                                          log \o o.log, d)

\* Sequence.parse, from child i on; matches are the texts gathered so far
SequenceLoop(r, i, context, matches, log, d) ==
    IF i > Len(r.rules)
    THEN LET c == Put(context, "_match", Str(Join(matches)))
         IN  Ok(c, TRUE, c, log)
    ELSE LET o == Parse(r.rules[i], Get(context, "_unparsed").v, context, d + 1)
         IN  IF o.kind # "ok"
             THEN [o EXCEPT !.log = log \o o.log]
             ELSE LET merged == IF o.same THEN o.ctx ELSE Update(o.arg, o.ctx)
                      c == IF Has(merged, "_capturable")
                           THEN Del(merged, "_capturable") ELSE merged
                  IN  SequenceLoop(r, i + 1, c,
                                   Append(matches, Get(c, "_match").v),
                                   log \o o.log, d)

\* SequenceParse as it would be if, after a failure, a Sequence whose first
\* child is an Alternatives were run again with that child's later
\* alternatives
SequenceParseBacktracking(r, s, context, d) ==
    LET o == SequenceLoop(r, 1, Put(context, "_unparsed", Str(s)), <<>>, <<>>, d)
    IN  IF /\ o.kind = "nomatch"
           /\ r.rules # <<>>
           /\ r.rules[1].kind = "Alternatives"
           /\ Len(r.rules[1].rules) > 1
        THEN LET again == [r EXCEPT !.rules[1].rules = Tail(@)]
                 o2 == SequenceLoop(again, 1, Put(context, "_unparsed", Str(s)),
                                    <<>>, <<>>, d)
             IN  [o2 EXCEPT !.log = o.log \o o2.log]
        ELSE o

SequenceParse(r, s, context, d) ==
    SequenceLoop(r, 1, Put(context, "_unparsed", Str(s)), <<>>, <<>>, d)

\* AlternativesLoop as it would be if every alternative were handed the
\* caller's context itself instead of a copy
RECURSIVE AlternativesLoopShared(_, _, _, _, _, _)
AlternativesLoopShared(r, i, s, context, log, d) ==
    IF i > Len(r.rules) THEN NoMatch(r, s, context, log)
    ELSE LET o == Parse(r.rules[i], s, context, d + 1)
         IN  CASE o.kind = "nomatch" ->
                    AlternativesLoopShared(r, i + 1, s, o.arg, log \o o.log, d)
               [] o.kind = "ok" ->
                    IF s = Get(o.ctx, "_unparsed").v /\ i + 1 <= Len(r.rules)
                    THEN Fatal(r, o.arg, log \o o.log)
                    ELSE Ok(o.ctx, o.same, o.arg, log \o o.log)
               [] OTHER -> [o EXCEPT !.log = log \o o.log]

\* AlternativesLoop as it would be without the zero-length check
RECURSIVE AlternativesLoopUnguarded(_, _, _, _, _, _)
AlternativesLoopUnguarded(r, i, s, context, log, d) ==
    IF i > Len(r.rules) THEN NoMatch(r, s, context, log)
    ELSE LET o == Parse(r.rules[i], s, Copy(context), d + 1)
         IN  CASE o.kind = "nomatch" ->
                    AlternativesLoopUnguarded(r, i + 1, s, context, log \o o.log, d)
               [] o.kind = "ok" -> Ok(o.ctx, FALSE, context, log \o o.log)
               [] OTHER -> [o EXCEPT !.arg = context, !.log = log \o o.log]

\* AlternativesLoop as it would be if the NoMatchError of the last
\* alternative were let through
RECURSIVE AlternativesLoopRethrow(_, _, _, _, _, _)
AlternativesLoopRethrow(r, i, s, context, log, d) ==
    IF i > Len(r.rules) THEN NoMatch(r, s, context, log)
    ELSE LET o == Parse(r.rules[i], s, Copy(context), d + 1)
         IN  CASE o.kind = "nomatch" /\ i < Len(r.rules) ->
                    AlternativesLoopRethrow(r, i + 1, s, context, log \o o.log, d)
               [] o.kind = "ok" ->
                    IF s = Get(o.ctx, "_unparsed").v /\ i + 1 <= Len(r.rules)
                    THEN Fatal(r, context, log \o o.log)
                    ELSE Ok(o.ctx, FALSE, context, log \o o.log)
               [] OTHER -> [o EXCEPT !.arg = context, !.log = log \o o.log]

\* Alternatives.parse, from alternative i on
AlternativesLoop(r, i, s, context, log, d) ==
    IF i > Len(r.rules) THEN NoMatch(r, s, context, log)
    ELSE LET o == Parse(r.rules[i], s, Copy(context), d + 1)
         IN  CASE o.kind = "nomatch" ->
                    AlternativesLoop(r, i + 1, s, context, log \o o.log, d)
               [] o.kind = "ok" ->
                    IF s = Get(o.ctx, "_unparsed").v /\ i + 1 <= Len(r.rules)
                    THEN Fatal(r, context, log \o o.log)
                    ELSE Ok(o.ctx, FALSE, context, log \o o.log)
               [] OTHER -> [o EXCEPT !.arg = context, !.log = log \o o.log]

AlternativesParse(r, s, context, d) == AlternativesLoop(r, 1, s, context, <<>>, d)

\* RuleWrapper.parse
RuleWrapperParse(r, s, context, d) == Parse(r.rule, s, context, d + 1)

\* FullMatchParse as it would be if the error carried the whole input
FullMatchParseWholeInput(r, s, context, d) ==
    LET o == RuleWrapperParse(r, s, context, d)
    IN  IF o.kind # "ok" THEN o
        ELSE IF Get(o.ctx, "_unparsed").v # <<>>
             THEN NoMatch(r, s, o.arg, o.log)
             ELSE o

FullMatchParse(r, s, context, d) ==
    LET o == RuleWrapperParse(r, s, context, d)
    IN  IF o.kind # "ok" THEN o
        ELSE IF Get(o.ctx, "_unparsed").v # <<>>
             THEN NoMatch(r, Get(o.ctx, "_unparsed").v, o.arg, o.log)
             ELSE o

\* OptionalParse as it would be with a bare except: every exception of the
\* wrapped rule is turned into the empty match
OptionalParseCatchAll(r, s, context, d) ==
    LET o == RuleWrapperParse(r, s, Copy(context), d)
    IN  CASE o.kind = "ok" -> Ok(o.ctx, FALSE, context, o.log)
          [] OTHER ->
               LET c == Matched(context, <<>>, s)
               IN  Ok(c, TRUE, c, o.log)

\* OptionalParse as it would be if only the text and the remainder of the
\* wrapped rule's match were taken over into the caller's context
OptionalParseTextOnly(r, s, context, d) ==
    LET o == RuleWrapperParse(r, s, Copy(context), d)
    IN  CASE o.kind = "ok" ->
               LET c == Matched(context, Get(o.ctx, "_match").v,
                                Get(o.ctx, "_unparsed").v)
               IN  Ok(c, TRUE, c, o.log)
          [] o.kind = "nomatch" ->
               LET c == Matched(context, <<>>, s)
               IN  Ok(c, TRUE, c, o.log)
          [] OTHER -> [o EXCEPT !.arg = context]

OptionalParse(r, s, context, d) ==
    LET o == RuleWrapperParse(r, s, Copy(context), d)
    IN  CASE o.kind = "ok" -> Ok(o.ctx, FALSE, context, o.log)
          [] o.kind = "nomatch" ->
               LET c == Matched(context, <<>>, s)
               IN  Ok(c, TRUE, c, o.log)
          [] OTHER -> [o EXCEPT !.arg = context]

\* CaptureParse as it would be if raw were not looked at
CaptureParseStructured(r, s, context, d) ==
    LET o == RuleWrapperParse(r, s, context, d)
    IN  IF o.kind # "ok" THEN o
        ELSE LET got == IF ~Has(o.ctx, "_capturable")
                        THEN Get(o.ctx, "_match")
                        ELSE Get(o.ctx, "_capturable")
                 value == IF r.transform # "None" THEN ApplyFn(r.transform, got) ELSE got
                 c == Put(o.ctx, r.name, value)
             IN  Ok(c, o.same, IF o.same THEN c ELSE o.arg, o.log)

CaptureParse(r, s, context, d) ==
    LET o == RuleWrapperParse(r, s, context, d)
    IN  IF o.kind # "ok" THEN o
        ELSE LET got == IF r.raw \/ ~Has(o.ctx, "_capturable")
                        THEN Get(o.ctx, "_match")
                        ELSE Get(o.ctx, "_capturable")
                 value == IF r.transform # "None" THEN ApplyFn(r.transform, got) ELSE got
                 c == Put(o.ctx, r.name, value)
             IN  Ok(c, o.same, IF o.same THEN c ELSE o.arg, o.log)

TransformParse(r, s, context, d) ==
    LET o == RuleWrapperParse(r, s, context, d)
    IN  IF o.kind # "ok" THEN o
        ELSE LET c == Put(o.ctx, "_match", ApplyFn(r.fn, Get(o.ctx, "_match")))
             IN  Ok(c, o.same, IF o.same THEN c ELSE o.arg, o.log)

\* AssertParse as it would be if the error carried what the rule left
\* unparsed
AssertParseRemainder(r, s, context, d) ==
    LET o == RuleWrapperParse(r, s, context, d)
    IN  IF o.kind # "ok" THEN o
        ELSE IF ~Holds(r.condition, o.ctx)
             THEN NoMatch(r, Get(o.ctx, "_unparsed").v, o.arg, o.log)
             ELSE o

AssertParse(r, s, context, d) ==
    LET o == RuleWrapperParse(r, s, context, d)
    IN  IF o.kind # "ok" THEN o
        ELSE IF ~Holds(r.condition, o.ctx)
             THEN NoMatch(r, s, o.arg, o.log)
             ELSE o

\* RepeatFinish as it would be if min were compared with <=
RepeatFinishStrict(r, s, context, matches, remainder, log) ==
    IF Len(matches) <= r.min THEN NoMatch(r, s, context, log)
    ELSE LET c == Update(context,
                    <<[k |-> "_match",
                       v |-> Str(Join([i \in 1..Len(matches) |->
                                        Get(matches[i], "_match").v]))],
                      [k |-> "_capturable",
                       v |-> List([i \in 1..Len(matches) |-> Clean(matches[i])])],
                      [k |-> "_unparsed", v |-> Str(remainder)]>>)
         IN  Ok(c, TRUE, c, log)

\* RepeatFinish as it would be if the iteration contexts were listed as they
\* are, without clean()
RepeatFinishUncleaned(r, s, context, matches, remainder, log) ==
    IF Len(matches) < r.min THEN NoMatch(r, s, context, log)
    ELSE LET c == Update(context,
                    <<[k |-> "_match",
                       v |-> Str(Join([i \in 1..Len(matches) |->
                                        Get(matches[i], "_match").v]))],
                      [k |-> "_capturable", v |-> List(matches)],
                      [k |-> "_unparsed", v |-> Str(remainder)]>>)
         IN  Ok(c, TRUE, c, log)

\* the end of Repeat.parse, after the loop
RepeatFinish(r, s, context, matches, remainder, log) ==
    IF Len(matches) < r.min THEN NoMatch(r, s, context, log)
    ELSE LET c == Update(context,
                    <<[k |-> "_match",
                       v |-> Str(Join([i \in 1..Len(matches) |->
                                        Get(matches[i], "_match").v]))],
                      [k |-> "_capturable",
                       v |-> List([i \in 1..Len(matches) |-> Clean(matches[i])])],
                      [k |-> "_unparsed", v |-> Str(remainder)]>>)
         IN  Ok(c, TRUE, c, log)

\* RepeatLoop as it would be if a zero-length iteration ended the loop
\* instead of raising
RECURSIVE RepeatLoopLenient(_, _, _, _, _, _, _, _)
RepeatLoopLenient(r, delim_rule, s, context, matches, remainder, log, d) ==
    IF r.max # Unbounded /\ Len(matches) >= r.max
    THEN RepeatFinish(r, s, context, matches, remainder, log)
    ELSE LET iter_context == <<[k |-> "parent", v |-> Ctx(context)]>>
             o == IF matches = <<>>
                  THEN Parse(r.rule, remainder, iter_context, d + 1)
                  ELSE Parse(delim_rule, remainder, iter_context, d + 1)
         IN  CASE o.kind = "nomatch" ->
                    RepeatFinish(r, s, context, matches, remainder, log \o o.log)
               [] o.kind = "ok" ->
                    IF remainder = Get(o.ctx, "_unparsed").v
                    THEN RepeatFinish(r, s, context, matches, remainder, log \o o.log)
                    ELSE IF ~Has(o.ctx, "parent")
                    THEN Crash(r, context, log \o o.log)
                    ELSE LET m == Del(o.ctx, "parent")
                             rest == Get(m, "_unparsed").v
                         IN  IF rest = <<>>
                             THEN RepeatFinish(r, s, context, Append(matches, m),
                                               rest, log \o o.log)
                             ELSE RepeatLoopLenient(r, delim_rule, s, context,
                                             Append(matches, m), rest,
                                             log \o o.log, d)
               [] OTHER -> [o EXCEPT !.arg = context, !.log = log \o o.log]

\* RepeatLoop as it would be without the break on exhausted input
RECURSIVE RepeatLoopNoBreak(_, _, _, _, _, _, _, _)
RepeatLoopNoBreak(r, delim_rule, s, context, matches, remainder, log, d) ==
    IF r.max # Unbounded /\ Len(matches) >= r.max
    THEN RepeatFinish(r, s, context, matches, remainder, log)
    ELSE LET iter_context == <<[k |-> "parent", v |-> Ctx(context)]>>
             o == IF matches = <<>>
                  THEN Parse(r.rule, remainder, iter_context, d + 1)
                  ELSE Parse(delim_rule, remainder, iter_context, d + 1)
         IN  CASE o.kind = "nomatch" ->
                    RepeatFinish(r, s, context, matches, remainder, log \o o.log)
               [] o.kind = "ok" ->
                    IF remainder = Get(o.ctx, "_unparsed").v
                    THEN Fatal(r, context, log \o o.log)
                    ELSE IF ~Has(o.ctx, "parent")
                    THEN Crash(r, context, log \o o.log)
                    ELSE LET m == Del(o.ctx, "parent")
                             rest == Get(m, "_unparsed").v
                         IN  RepeatLoopNoBreak(r, delim_rule, s, context,
                                               Append(matches, m), rest,
                                               log \o o.log, d)
               [] OTHER -> [o EXCEPT !.arg = context, !.log = log \o o.log]

\* RepeatLoop as it would be if every iteration were run on the caller's
\* context itself instead of a context of its own
RECURSIVE RepeatLoopInPlace(_, _, _, _, _, _, _, _)
RepeatLoopInPlace(r, delim_rule, s, context, matches, remainder, log, d) ==
    IF r.max # Unbounded /\ Len(matches) >= r.max
    THEN RepeatFinish(r, s, context, matches, remainder, log)
    ELSE LET o == IF matches = <<>>
                  THEN Parse(r.rule, remainder, context, d + 1)
                  ELSE Parse(delim_rule, remainder, context, d + 1)
         IN  CASE o.kind = "nomatch" ->
                    RepeatFinish(r, s, o.arg, matches, remainder, log \o o.log)
               [] o.kind = "ok" ->
                    LET rest == Get(o.ctx, "_unparsed").v
                    IN  IF remainder = rest
                        THEN Fatal(r, o.arg, log \o o.log)
                        ELSE IF rest = <<>>
                        THEN RepeatFinish(r, s, o.arg, Append(matches, o.ctx),
                                          rest, log \o o.log)
                        ELSE RepeatLoopInPlace(r, delim_rule, s, o.arg,
                                               Append(matches, o.ctx), rest,
                                               log \o o.log, d)
               [] OTHER -> [o EXCEPT !.log = log \o o.log]

\* the loop of Repeat.parse
RepeatLoop(r, delim_rule, s, context, matches, remainder, log, d) ==
    IF r.max # Unbounded /\ Len(matches) >= r.max
    THEN RepeatFinish(r, s, context, matches, remainder, log)
    ELSE LET iter_context == <<[k |-> "parent", v |-> Ctx(context)]>>
             o == IF matches = <<>>
                  THEN Parse(r.rule, remainder, iter_context, d + 1)
                  ELSE Parse(delim_rule, remainder, iter_context, d + 1)
         IN  CASE o.kind = "nomatch" ->
                    RepeatFinish(r, s, context, matches, remainder, log \o o.log)
               [] o.kind = "ok" ->
                    IF remainder = Get(o.ctx, "_unparsed").v
                    THEN Fatal(r, context, log \o o.log)
                    ELSE IF ~Has(o.ctx, "parent")
                    THEN Crash(r, context, log \o o.log)
                    ELSE LET m == Del(o.ctx, "parent")
                             rest == Get(m, "_unparsed").v
                         IN  IF rest = <<>>
                             THEN RepeatFinish(r, s, context, Append(matches, m),
                                               rest, log \o o.log)
                             ELSE RepeatLoop(r, delim_rule, s, context,
                                             Append(matches, m), rest,
                                             log \o o.log, d)
               [] OTHER -> [o EXCEPT !.arg = context, !.log = log \o o.log]

RepeatParse(r, s, context, d) ==
    LET delim_rule == IF r.delimiter # NoDelimiter
                      THEN Add(r.delimiter, r.rule)
                      ELSE r.rule
    IN  RepeatLoop(r, delim_rule, s, context, <<>>, s, <<>>, d)

\* Mapping.parse: Repeat.parse, then the conversion of the list; the
\* conversion reads the name match, which is bound nowhere in the module, so
\* it raises NameError whenever the Repeat returned (its _capturable is
\* always a list)
MappingConvert(r, o) ==
    IF o.kind # "ok" THEN o
    ELSE IF Has(o.ctx, "_capturable") /\ Get(o.ctx, "_capturable").t = "list"
         THEN Crash(r, o.arg, o.log)
         ELSE o

MappingParse(r, s, context, d) == MappingConvert(r, RepeatParse(r, s, context, d))

\* Reference.parse: self.fn(context).parse(s, context=context)
ReferenceParse(r, s, context, d) == Parse(r.fn, s, context, d + 1)

\* the outcome o of r.parse(s, ...) at depth d, with the call and its return
\* (or the exception that leaves it) written to the log
Logged(r, s, context, d, o) ==
    LET u == IF o.kind = "ok" THEN Get(o.ctx, "_unparsed").v ELSE o.unparsed
        m == IF o.kind = "ok" THEN Get(o.ctx, "_match").v ELSE <<>>
        keys == IF o.kind = "ok" THEN Keys(o.ctx) ELSE {}
    IN  [o EXCEPT !.log =
            <<Event("enter", d, r, s, <<>>, <<>>, NoRule, Keys(context))>> \o o.log
                \o <<Event(o.kind, d, r, s, u, m, o.rule, keys)>>]

Parse(r, s, context, d) ==
    Logged(r, s, context, d,
           CASE r.kind = "WS" -> WSParse(r, s, context)
               [] r.kind = "Literal" -> LiteralParse(r, s, context)
               [] r.kind = "Chars" -> CharsParse(r, s, context)
               [] r.kind = "Sequence" -> SequenceParse(r, s, context, d)
               [] r.kind = "Alternatives" -> AlternativesParse(r, s, context, d)
               [] r.kind = "FullMatch" -> FullMatchParse(r, s, context, d)
               [] r.kind = "Optional" -> OptionalParse(r, s, context, d)
               [] r.kind = "Capture" -> CaptureParse(r, s, context, d)
               [] r.kind = "Transform" -> TransformParse(r, s, context, d)
               [] r.kind = "Assert" -> AssertParse(r, s, context, d)
               [] r.kind = "Repeat" -> RepeatParse(r, s, context, d)
               [] r.kind = "Mapping" -> MappingParse(r, s, context, d)
               [] r.kind = "Reference" -> ReferenceParse(r, s, context, d)
               [] OTHER -> NoMatch(r, s, context, <<>>))

\* AfterParse as it would be if Repeat.parse kept the rule it builds from its
\* delimiter and its rule in self.rule
AfterParseCached(r) ==
    IF r.kind = "Repeat" /\ r.delimiter # NoDelimiter
    THEN [r EXCEPT !.rule = Add(r.delimiter, r.rule)]
    ELSE r

\* the rule tree r as a parse leaves it: no parse method assigns to an
\* attribute of self or of a child (Repeat.parse keeps delim_rule in a
\* local)
AfterParse(r) == r

\* return context.clean()
Cleaned(o) == IF o.kind = "ok" THEN [o EXCEPT !.ctx = Clean(o.ctx)] ELSE o

\* Rule.__call__
Call(r, s, p) == Cleaned(Parse(FullMatch(r), s, EmptyContext, 0))

(***************************************************************************)
(* The grammars and inputs of the model.                                   *)
(***************************************************************************)
Lz == Literal(<<<<"z">>>>, TRUE)

La == Literal(<<<<"a">>>>, TRUE)

Lza == Literal(<<<<"z", "a">>>>, TRUE)

Cz == Chars(CharSet({"z", "Z"}), NoneSet, 1, 1)

Cz0 == Chars(CharSet({"z"}), NoneSet, 0, Unbounded)

OptZ == Optional(Lz, <<>>)

CapZ == Capture(Lz, "x", "None", FALSE)

Atoms == {Lz, La, Lza, Cz, Cz0}

Wrapped ==
    {OptZ, Optional(La, <<"D">>), CapZ, Capture(Cz, "y", "None", FALSE),
     Ignore(Lz), CaseFold(Cz), Transform(La, "star"),
     AssertRule(Cz0, "single"), AssertRule(Lz, "never"), FullMatch(Lz), WS}

Bodies == Atoms \cup Wrapped

Items == {Lz, Cz, Cz0, OptZ, CapZ, Ignore(Lz), WS, AssertRule(Cz0, "single")}

Counts == 0..MaxCount

Maxes == Counts \cup {Unbounded}

Delimiters == {NoDelimiter, Plain(<<",">>), Optional(Plain(<<",">>), <<>>)}

Sequences ==
    {Sequence(<<x, y>>) : x \in Bodies, y \in Items}
        \cup {Mul(x, y) : x \in {Lz, CapZ}, y \in {La, OptZ}}
        \cup {Sequence(<<>>), Sequence(<<Lz, Sequence(<<Ignore(La), Lz>>)>>)}

Choices ==
    {Alternatives(<<x, y>>) : x \in Bodies, y \in Items}
        \cup {Alternatives(<<Lza, x, Cz0>>) : x \in Items}

Repeats ==
    {Repeat(x, dl, m, n) : x \in Items, dl \in Delimiters, m \in Counts, n \in Maxes}

\* grammars that raise the zero-length RuntimeError on some input
Faulty ==
    {Repeat(OptZ, NoDelimiter, 0, Unbounded), Alternatives(<<OptZ, La>>)}

\* a faulty grammar below each of the combinators
Carriers ==
    UNION {{Optional(f, <<>>), AssertRule(f, "always"), FullMatch(f),
            Capture(f, "x", "None", TRUE), Transform(f, "casefold"),
            Repeat(f, NoDelimiter, 0, Unbounded),
            Repeat(La, f, 0, Unbounded),
            Alternatives(<<f, La>>), Alternatives(<<La, f>>),
            Sequence(<<La, f>>), Sequence(<<f, La>>),
            Optional(Alternatives(<<La, Sequence(<<Lz, f>>)>>), <<>>)} : f \in Faulty}

\* alternatives whose first branch binds a key and then fails
Binders ==
    {Sequence(<<CapZ, La>>), AssertRule(CapZ, "never"),
     Sequence(<<CapZ, Capture(La, "y", "None", FALSE)>>),
     Sequence(<<Optional(CapZ, <<>>), La>>),
     Sequence(<<Lz, Alternatives(<<Sequence(<<CapZ, La>>), Lz>>), La>>)}

Isolated ==
    {Alternatives(<<x, y>>) :
        x \in Binders, y \in {Lz, Capture(Lz, "y", "None", FALSE), Lza,
                               Sequence(<<Lz, Optional(La, <<>>)>>)}}
        \cup {Alternatives(<<x, y, Lz>>) : x \in Binders, y \in Binders}

Digit == Chars(CharSet({"0", "1", "2", "3", "4", "5", "6", "7", "8", "9"}), NoneSet, 1, 1)

\* the grammars of the specification's examples
Examples ==
    {Literal(<<<<"a", "b">>>>, TRUE),
     Optional(Literal(<<<<"n", "o">>>>, TRUE), <<"D">>),
     Repeat(Digit, NoDelimiter, 2, 4),
     Repeat(Digit, NoDelimiter, 3, 4),
     Literal(<<<<"s", "s">>>>, TRUE)}

\* a pair: a letter captured as "key", a digit captured as "value"
KV ==
    Sequence(<<Capture(Chars(CharSet({"a", "b"}), NoneSet, 1, 1), "key", "None", FALSE),
               Capture(Digit, "value", "None", FALSE)>>)

\* a pair over the alphabet: a letter, then at most one comma
KVz ==
    Sequence(<<Capture(Chars(CharSet({"z", "a"}), NoneSet, 1, 1), "key", "None", FALSE),
               Capture(Chars(CharSet({","}), NoneSet, 0, 1), "value", "None", FALSE)>>)

Mappings ==
    {Mapping(x, NoDelimiter, m, Unbounded, "None", "None") : x \in {KV, KVz, CapZ}, m \in 0..1}
        \cup {Mapping(KVz, NoDelimiter, 0, 2, "key", "value"),
              Capture(Mapping(KVz, NoDelimiter, 0, Unbounded, "None", "None"),
                      "m", "None", FALSE),
              Optional(Mapping(KVz, NoDelimiter, 0, Unbounded, "None", "None"), <<>>)}

\* the functions given as transform
Transforms == {"None", "star", "len"}

RepCapZ == Repeat(CapZ, NoDelimiter, 1, Unbounded)

\* a Repeat of captures, itself captured inside a Repeat that is captured
Nested ==
    Capture(Repeat(Capture(RepCapZ, "in", "None", FALSE), Plain(<<",">>), 0, Unbounded),
            "out", "None", FALSE)

\* captures of rules with and without a structured value
Captured ==
    {Capture(Repeat(x, dl, 0, Unbounded), "out", tf, raw) :
        x \in {Lz, CapZ, Sequence(<<CapZ, Optional(Capture(La, "y", "None", FALSE), <<>>)>>)},
        dl \in Delimiters, tf \in {"None", "star"}, raw \in BOOLEAN}
        \cup {Capture(x, "n", tf, raw) :
                x \in {Lz, Cz0, Optional(RepCapZ, <<>>), Sequence(<<RepCapZ>>),
                       Transform(RepCapZ, "star"), Alternatives(<<RepCapZ, La>>),
                       Capture(RepCapZ, "m", "None", FALSE)},
                tf \in Transforms, raw \in BOOLEAN}
        \cup {Nested, Sequence(<<Nested, La>>)}

\* rules with a condition, alone and below the rules that recover from
\* NoMatchError
Guarded ==
    UNION {{g, Optional(g, <<>>), Repeat(g, NoDelimiter, 0, Unbounded),
            Repeat(g, Plain(<<",">>), 1, 2), Alternatives(<<g, Lza>>),
            Alternatives(<<La, g>>), Sequence(<<g, La>>)} :
           g \in {AssertRule(x, c) : x \in {Lz, Cz0, CapZ},
                                     c \in {"always", "never", "single"}}}

\* the rules that composition operators are applied to
Operands ==
    {Lz, Cz, Cz0, Chars(CharSet({"z"}), NoneSet, 2, 3), CapZ,
     Capture(Lz, "x", "star", FALSE), Capture(RepCapZ, "out", "len", FALSE),
     Chars(NoneSet, CharSet({","}), 1, Unbounded), Chars(NoneSet, NoneSet, 1, 1),
     Sequence(<<Lz, La>>), Alternatives(<<Lza, Lz>>), OptZ,
     Repeat(Lz, NoDelimiter, 0, Unbounded), Repeat(Lz, Plain(<<",">>), 1, 2)}

\* a letter captured as "y"
CapLetter == Capture(Chars(CharSet({"z", "a"}), NoneSet, 1, 1), "y", "None", FALSE)

\* repetitions whose rule binds a key before it can fail
Trailing ==
    {Repeat(x, dl, m, Unbounded) :
        x \in {Sequence(<<CapZ, La>>), Sequence(<<CapLetter, Lz>>),
               Sequence(<<CapLetter, Optional(CapZ, <<>>), La>>)},
        dl \in {NoDelimiter, Plain(<<",">>)}, m \in Counts}

\* references to rules, alone and below the combinators
References ==
    {Reference(x) : x \in {Lz, Cz0, CapZ, OptZ, RepCapZ, Sequence(<<Lz, La>>),
                           Alternatives(<<Lza, Lz>>), Reference(Lz)}}
        \cup {Sequence(<<Reference(Lz), Reference(La)>>),
              Repeat(Reference(CapZ), Reference(Plain(<<",">>)), 0, Unbounded),
              Alternatives(<<Reference(Lza), Reference(Cz0)>>),
              Optional(Reference(Lza), <<>>),
              Capture(Reference(RepCapZ), "out", "None", FALSE)}

\* the literals given to Literal(...): one or several, in lower and upper
\* case, and with a character whose case fold is longer than itself
Declared ==
    {<<<<"z">>>>, <<<<"Z">>>>, <<<<"z", "A">>>>, <<<<"U+00DF">>>>, <<<<"s", "s">>>>,
     <<<<"z">>, <<"z", "a">>>>, <<<<"z", "a">>, <<"z">>>>, <<<<"a">>, <<"Z">>, <<",">>>>}

Literals == {Literal(ls, fold) : ls \in Declared, fold \in BOOLEAN}

\* character classes with and without allowed and excluded sets, over all
\* the bounds
Classes ==
    {Chars(allowed, excluded, m, n) :
        allowed \in {NoneSet, CharSet({"z", "a"})},
        excluded \in {NoneSet, CharSet({"a"})},
        m \in Counts, n \in Maxes}

\* a choice (an Alternatives or a Repeat) followed by a rule that may fail on
\* what the choice left
Committing ==
    {Sequence(<<Alternatives(<<x, y>>), c>>) :
        x \in {Lz, CapZ, Cz0}, y \in {Lza, Sequence(<<Lz, La>>), La},
        c \in {Lz, La}}
        \cup {Sequence(<<Repeat(x, dl, 0, n), c>>) :
                x \in {Lz, CapLetter}, dl \in {NoDelimiter, Plain(<<",">>)},
                n \in Maxes, c \in {Lz, La}}
        \cup {Sequence(<<La, Alternatives(<<Lz, Lza>>), Repeat(Lz, NoDelimiter, 0, Unbounded), Lz>>)}

\* captures of rules without a structured value, after a Repeat that ran in
\* the same context, and captures of Sequences that hold a Repeat
Followers ==
    {Sequence(<<x, Capture(y, "n", tf, raw)>>) :
        x \in {RepCapZ, Capture(RepCapZ, "m", "None", FALSE), Optional(RepCapZ, <<>>)},
        y \in {La, Chars(CharSet({"a", ","}), NoneSet, 0, Unbounded),
               Sequence(<<La>>), Sequence(<<>>)},
        tf \in {"None", "len"}, raw \in BOOLEAN}
        \cup {Capture(x, "n", "None", raw) :
                x \in {Sequence(<<Lz, RepCapZ, La>>), Sequence(<<La, RepCapZ>>),
                       Sequence(<<Capture(RepCapZ, "m", "None", FALSE)>>)},
                raw \in BOOLEAN}
        \cup {Repeat(Sequence(<<RepCapZ, Capture(La, "n", "None", FALSE)>>),
                     Plain(<<",">>), 0, Unbounded)}

\* repetitions inside a context that binds keys already, and repetitions
\* whose iterations bind several keys, the key "parent" among them
Scoped ==
    {Sequence(<<Capture(La, n, "None", FALSE), Repeat(x, NoDelimiter, 0, Unbounded)>>) :
        n \in {"x", "parent"}, x \in {CapZ, Capture(Lz, "parent", "None", FALSE)}}
        \cup {Repeat(x, dl, 0, Unbounded) :
                x \in {Capture(Lz, "parent", "None", FALSE),
                       Sequence(<<CapZ, Optional(Capture(La, "y", "None", FALSE), <<>>)>>),
                       Sequence(<<Capture(Lz, "parent", "None", FALSE),
                                  Capture(La, "y", "None", FALSE)>>),
                       Alternatives(<<Sequence(<<CapZ, La>>), CapLetter>>),
                       Capture(RepCapZ, "in", "None", FALSE)},
                dl \in {NoDelimiter, Plain(<<",">>)}}
        \cup {Capture(Repeat(Capture(Lz, "parent", "None", FALSE), NoDelimiter,
                              0, Unbounded), "out", "None", FALSE)}

\* optional rules that bind keys or have a structured value
Optionals ==
    {Optional(x, df) :
        x \in {CapZ, RepCapZ, Nested, Sequence(<<CapZ, La>>), FullMatch(CapZ),
               Alternatives(<<Sequence(<<CapZ, La>>), CapLetter>>),
               Transform(CapZ, "star"), AssertRule(RepCapZ, "single")},
        df \in {<<>>, <<"D">>}}

Rules ==
    Bodies \cup Sequences \cup Choices \cup Repeats \cup Faulty \cup Carriers
        \cup Isolated \cup Examples \cup Mappings \cup Captured \cup Operands
        \cup Guarded \cup Trailing \cup References \cup Optionals \cup Literals
        \cup Classes \cup Committing \cup Followers \cup Scoped

\* the right-hand (left-hand) operands of +, * and |
Others == {La, Plain(<<",">>), Sequence(<<Lz, La>>), Alternatives(<<La, Lz>>)}

Bounds == {NoDelimiter} \cup {Number(n) : n \in Counts}

Selectors ==
    {Name("n"), NoDelimiter, Slice(Name("n"), Fn("star"), NoDelimiter),
     Slice(Name("n"), NoDelimiter, NoDelimiter)}
        \cup {Number(n) : n \in Counts}
        \cup {Slice(m, n, dl) : m \in Bounds, n \in Bounds,
                                dl \in {NoDelimiter, Plain(<<",">>)}}

\* the operators that can be applied to self
Operators(self) ==
    {[name |-> n, arg |-> x] : n \in {"add", "radd", "mul", "rmul", "or", "ror"},
                                x \in Others}
        \cup {[name |-> "item", arg |-> x] : x \in Selectors}
        \cup {[name |-> "invert", arg |-> NoDelimiter]}
        \cup (IF self.kind = "Capture"
              THEN {[name |-> "pos", arg |-> NoDelimiter]} ELSE {})

Alphabet == {"z", "a", ","}

RECURSIVE Strings(_)
Strings(n) ==
    IF n = 0 THEN {<<>>}
    ELSE LET shorter == Strings(n - 1)
         IN  shorter \cup {Append(s, c) : s \in {x \in shorter : Len(x) = n - 1},
                                          c \in Alphabet}

\* the inputs of the specification's examples, and inputs with upper case,
\* with a character whose case fold is longer, and with whitespace
ExampleInputs ==
    {<<"a", "b", "c">>, <<"y", "e", "s">>, <<"1", "2", "3", "4", "5", "6">>,
     <<"1", "2">>, <<"Z">>, <<"z", "Z">>, <<"Z", "a">>, <<"U+00DF">>,
     <<" ">>, <<" ", "z">>, <<"z", " ", "a">>, <<"z", " ", "\t", "z">>,
     <<"a", "1", "b", "2", "a", "3">>, <<"z", "a", ",", "z">>,
     <<"a", ",", "b", ",">>, <<"U+00DF", "a">>, <<"s", "s", "a">>, <<"Z", "A", "z">>}

Inputs == Strings(MaxLen) \cup ExampleInputs

(***************************************************************************)
(* The state machine: a caller holds a grammar (rule) and an input, and    *)
(* either invokes the rule (Rule.__call__, with or without partial) or     *)
(* runs rule.parse on a fresh Context; afterwards the same grammar is used *)
(* again on another input.                                                 *)
(***************************************************************************)
None == [kind |-> "none"]

Init ==
    /\ rule \in Rules
    /\ input \in Inputs
    /\ partial = FALSE
    /\ pc = "ready"
    /\ result = None
    /\ built = None
    /\ seen = <<>>

\* rule(input)
CallFull ==
    /\ pc = "ready"
    /\ result' = Call(rule, input, FALSE)
    /\ rule' = AfterParse(rule)
    /\ partial' = FALSE
    /\ pc' = "called"
    /\ UNCHANGED <<input, built, seen>>

\* rule(input, partial=True)
CallPartial ==
    /\ pc = "ready"
    /\ result' = Call(rule, input, TRUE)
    /\ rule' = AfterParse(rule)
    /\ partial' = TRUE
    /\ pc' = "called"
    /\ UNCHANGED <<input, built, seen>>

\* rule.parse(input, Context())
ParseFresh ==
    /\ pc = "ready"
    /\ result' = Parse(rule, input, EmptyContext, 0)
    /\ rule' = AfterParse(rule)
    /\ pc' = "parsed"
    /\ UNCHANGED <<input, partial, built, seen>>

\* a composition operator is applied to the rule: built holds the operator,
\* the rule as it was before the call and the value returned
Compose ==
    /\ pc = "ready"
    /\ rule \in Operands
    /\ \E o \in Operators(rule) :
          LET a == Operator(o, rule)
          IN  /\ rule' = a.self
              /\ built' = [op |-> o, operand |-> rule, other |-> a.other,
                            fresh |-> a.fresh, out |-> a.out]
    /\ pc' = "composed"
    /\ UNCHANGED <<input, partial, result, seen>>

\* built.parse(input, Context()), built being the rule the operator returned
ParseBuilt ==
    /\ pc = "composed"
    /\ built.out # KeyError
    /\ result' = Parse(built.out, input, EmptyContext, 0)
    /\ pc' = "built"
    /\ UNCHANGED <<rule, input, partial, built, seen>>

\* the caller takes the next input for the same grammar
Reuse ==
    /\ pc \in {"called", "parsed", "built"}
    /\ \E s \in Strings(1) : input' = s
    /\ partial' = FALSE
    /\ pc' = "ready"
    /\ result' = None
    /\ built' = None
    /\ UNCHANGED <<rule, seen>>

Next == CallFull \/ CallPartial \/ ParseFresh \/ Compose \/ ParseBuilt \/ Reuse

Spec == Init /\ [][Next]_vars

(***************************************************************************)
(* A grammar shared by many parses: the caller keeps what each parse of    *)
(* the grammar gave (seen) and goes on to parse another input, or the same *)
(* input again.                                                            *)
(***************************************************************************)
\* the grammars that are shared
Shared ==
    {Lz, Cz0, CapZ, OptZ, RepCapZ, Nested, Repeat(Lz, Plain(<<",">>), 0, Unbounded),
     Repeat(CapZ, Plain(<<",">>), 1, 2), Repeat(CapZ, Optional(Plain(<<",">>), <<>>), 0, Unbounded),
     Sequence(<<CapZ, La>>), Alternatives(<<Sequence(<<CapZ, La>>), Lz>>),
     Sequence(<<Repeat(CapLetter, NoDelimiter, 0, 1), Lz>>),
     Repeat(OptZ, NoDelimiter, 0, Unbounded), Alternatives(<<OptZ, La>>),
     Mapping(KVz, NoDelimiter, 0, Unbounded, "None", "None"),
     Reference(Repeat(Lz, Plain(<<",">>), 0, Unbounded))}

\* the inputs they are run on
Repeated == {<<>>, <<"z">>, <<"z", "a">>, <<"z", ",", "z">>}

\* how the parse that has just ended was made
How == IF pc = "parsed" THEN "parse" ELSE IF partial THEN "partial" ELSE "call"

InitShared ==
    /\ rule \in Shared
    /\ input \in Repeated
    /\ partial = FALSE
    /\ pc = "ready"
    /\ result = None
    /\ built = None
    /\ seen = <<>>

\* the caller keeps the outcome of the parse and takes the next input
Remember ==
    /\ pc \in {"called", "parsed"}
    /\ Len(seen) < MaxSeen
    /\ seen' = Append(seen, [grammar |-> rule, input |-> input, how |-> How,
                             kind |-> result.kind, ctx |-> result.ctx,
                             by |-> result.rule, unparsed |-> result.unparsed])
    /\ \E s \in Repeated : input' = s
    /\ partial' = FALSE
    /\ pc' = "ready"
    /\ result' = None
    /\ UNCHANGED <<rule, built>>

NextShared == CallFull \/ CallPartial \/ ParseFresh \/ Remember

SpecShared == InitShared /\ [][NextShared]_vars

(***************************************************************************)
(* Reading the call log of the finished parse.                             *)
(***************************************************************************)
Done == pc \in {"called", "parsed"}

Log == IF Done THEN result.log ELSE <<>>

Enters == {i \in 1..Len(Log) : Log[i].ev = "enter"}

EntersOf(kind) == {i \in Enters : Log[i].rule.kind = kind}

\* the log entry at which the call entered at i was left
Exit(i) ==
    CHOOSE j \in (i + 1)..Len(Log) :
        /\ Log[j].d = Log[i].d /\ Log[j].ev # "enter"
        /\ \A k \in (i + 1)..(j - 1) : Log[k].d > Log[i].d

\* the calls made directly by the call entered at i, in the order made
Children(i) ==
    {k \in Enters : i < k /\ k < Exit(i) /\ Log[k].d = Log[i].d + 1}

\* the n-th (1-based) direct call of the call entered at i
Child(i, n) ==
    CHOOSE k \in Children(i) : Cardinality({j \in Children(i) : j <= k}) = n

\* the direct calls of i that returned a context
Returned(i) == {k \in Children(i) : Log[Exit(k)].ev = "ok"}

\* the texts matched by the returned direct calls of i, in order
RECURSIVE TextsFrom(_, _)
TextsFrom(i, from) ==
    LET later == {k \in Returned(i) : k >= from}
    IN  IF later = {} THEN <<>>
        ELSE LET k == CHOOSE x \in later : \A y \in later : x <= y
             IN  Log[Exit(k)].m \o TextsFrom(i, k + 1)

\* the public keys of a context
PublicKeys(context) == Keys(Clean(context))

\* r.parse(s, Context()): the rule run alone on a fresh context
Alone(r, s) == Parse(r, s, EmptyContext, 0)

MatchOf(o) == Get(o.ctx, "_match").v

UnparsedOf(o) == Get(o.ctx, "_unparsed").v

(***************************************************************************)
(* C1.  Isolation of failed branches.                                      *)
(***************************************************************************)
\* C1: when Alternatives succeeds, the public keys and values of the context
\* it returns (and of the result of the top-level call) are exactly those the
\* winning alternative, the first that succeeds, binds when run alone on a
\* fresh context: nothing bound inside an earlier alternative that ended in
\* NoMatchError is present.
C1_Isolation ==
    (Done /\ rule.kind = "Alternatives" /\ result.kind = "ok") =>
        \E j \in 1..Len(rule.rules) :
            /\ Alone(rule.rules[j], input).kind = "ok"
            /\ \A h \in 1..(j - 1) : Alone(rule.rules[h], input).kind = "nomatch"
            /\ Clean(result.ctx) = Clean(Alone(rule.rules[j], input).ctx)

\* Alternatives(Sequence(Capture(L("z"), "x"), L("a")), L("z")) on "z": the
\* first alternative binds "x" and then fails, the second succeeds.
C1_Witness ==
    /\ pc = "parsed"
    /\ rule = Alternatives(<<Sequence(<<CapZ, La>>), Lz>>)
    /\ input = <<"z">>
    /\ result.kind = "ok"
    /\ "x" \notin Keys(result.ctx)
    /\ \E i \in EntersOf("Capture") :
            Log[i].rule.name = "x" /\ Log[Exit(i)].ev = "ok"
    /\ Log[Exit(Child(1, 1))].ev = "nomatch"

(***************************************************************************)
(* C2.  The termination guard of Repeat.                                   *)
(***************************************************************************)
\* C2: in every Repeat.parse of the run, at any depth, an iteration (a direct
\* call of the Repeat) that returns with its unparsed equal to the input it
\* was given is followed at once by the Repeat raising RuntimeError, which
\* is the outcome of the whole parse.
C2_RepeatGuard ==
    \A i \in EntersOf("Repeat") : \A k \in Returned(i) :
        Log[Exit(k)].u = Log[k].s =>
            /\ Exit(i) = Exit(k) + 1
            /\ Log[Exit(i)].ev = "fatal"
            /\ Log[Exit(i)].by = Log[i].rule
            /\ result.kind = "fatal"

\* a zero-length second iteration (delimiter and rule both match nothing)
C2_Witness ==
    /\ pc = "parsed"
    /\ rule.kind = "Repeat" /\ rule.delimiter # NoDelimiter
    /\ result.kind = "fatal"
    /\ Cardinality(Returned(1)) = 2
    /\ Log[Exit(Child(1, 2))].u = Log[Child(1, 2)].s

(***************************************************************************)
(* C3.  Repeat(Optional(Literal("z"))).                                    *)
(***************************************************************************)
RepOptZ == Repeat(OptZ, NoDelimiter, 0, Unbounded)

OnlyZ(s) == \A n \in 1..Len(s) : casefold(<<s[n]>>) = <<"z">>

\* C3 as stated: on every non-empty input the parse raises RuntimeError.
C3_Original ==
    (pc = "parsed" /\ rule = RepOptZ /\ input # <<>>) => result.kind = "fatal"

\* C3 as amended: on a non-empty input the parse raises RuntimeError exactly
\* when the input holds a character other than z (in either case); an input
\* made of z only is matched whole and returned.
C3_Amended ==
    (pc = "parsed" /\ rule = RepOptZ /\ input # <<>>) =>
        IF OnlyZ(input)
        THEN /\ result.kind = "ok"
             /\ MatchOf(result) = casefold(input)
             /\ UnparsedOf(result) = <<>>
        ELSE result.kind = "fatal"

\* an input that starts with "z": one iteration succeeds, the next is empty
C3_Witness ==
    /\ pc = "parsed" /\ rule = RepOptZ /\ input = <<"z", "a">>
    /\ result.kind = "fatal"
    /\ Cardinality(Returned(1)) = 2

(***************************************************************************)
(* C4.  Zero-length alternatives.                                          *)
(***************************************************************************)
\* C4: in every Alternatives.parse of the run the n-th direct call is the
\* n-th alternative on the same input; if it returns having consumed nothing
\* and is not the last alternative, the Alternatives raises RuntimeError at
\* once (no further alternative is called) and the parse ends with it; if it
\* is the last alternative, the Alternatives returns that match.
C4_ZeroLengthAlternative ==
    \A i \in EntersOf("Alternatives") : \A n \in 1..Cardinality(Children(i)) :
        LET k == Child(i, n)
            x == Exit(k)
        IN  /\ Log[k].rule = Log[i].rule.rules[n]
            /\ Log[k].s = Log[i].s
            /\ (Log[x].ev = "ok" /\ Log[x].u = Log[i].s) =>
                  /\ Exit(i) = x + 1
                  /\ IF n < Len(Log[i].rule.rules)
                     THEN /\ Log[x + 1].ev = "fatal"
                          /\ Log[x + 1].by = Log[i].rule
                          /\ result.kind = "fatal"
                     ELSE /\ Log[x + 1].ev = "ok"
                          /\ Log[x + 1].u = Log[i].s
                          /\ Log[x + 1].m = Log[x].m

\* Alternatives(Optional(L("z")), L("a")) on "a"
C4_Witness ==
    /\ pc = "parsed"
    /\ rule = Alternatives(<<OptZ, La>>)
    /\ input = <<"a">>
    /\ result.kind = "fatal"
    /\ Cardinality(Children(1)) = 1

(***************************************************************************)
(* C5.  Fatal errors are never caught.                                     *)
(***************************************************************************)
\* C5: once a RuntimeError is raised anywhere in the rule tree, every later
\* entry of the log is an enclosing call left by that same error (no rule is
\* entered any more), and it is the outcome of the top-level call.
C5_FatalPropagates ==
    \A j \in 1..Len(Log) :
        Log[j].ev = "fatal" =>
            /\ result.kind = "fatal"
            /\ result.rule = Log[j].by
            /\ \A h \in (j + 1)..Len(Log) :
                    /\ Log[h].ev = "fatal"
                    /\ Log[h].by = Log[j].by
                    /\ Log[h].d = Log[h - 1].d - 1

\* the error of a Repeat four levels down passes a Sequence, an
\* Alternatives, an Optional and the FullMatch of the top-level call
C5_Witness ==
    /\ pc = "called"
    /\ rule = Optional(Alternatives(<<La, Sequence(<<Lz, RepOptZ>>)>>), <<>>)
    /\ input = <<"z", "a">>
    /\ result.kind = "fatal"
    /\ result.rule = RepOptZ

(***************************************************************************)
(* C6.  The default of Optional.                                           *)
(***************************************************************************)
\* C6 as stated: when the wrapped rule fails with NoMatchError, Optional
\* returns a match whose text is its default and whose unparsed is the input.
C6_OptionalDefault ==
    \A i \in EntersOf("Optional") : \A k \in Children(i) :
        Log[Exit(k)].ev = "nomatch" =>
            /\ Log[Exit(i)].ev = "ok"
            /\ Log[Exit(i)].m = Log[i].rule.default
            /\ Log[Exit(i)].u = Log[i].s

(***************************************************************************)
(* C7.  The partial flag of the top-level call.                            *)
(***************************************************************************)
\* C7 as stated: with partial=True the call succeeds whenever the rule
\* matches a prefix of the input.
C7_PartialAccepted ==
    (pc = "called" /\ partial /\ Alone(rule, input).kind = "ok") =>
        result.kind = "ok"

(***************************************************************************)
(* C8.  FullMatch.                                                         *)
(***************************************************************************)
\* C8: every FullMatch.parse of the run calls its rule once on its input; it
\* returns iff the rule returns with nothing unparsed, and when the rule
\* returns with unparsed u # "" it raises NoMatchError(rule=the FullMatch,
\* unparsed=u).
C8_FullMatch ==
    \A i \in EntersOf("FullMatch") :
        LET k == Child(i, 1)
            x == Exit(k)
            e == Exit(i)
        IN  /\ Cardinality(Children(i)) = 1
            /\ Log[k].rule = Log[i].rule.rule
            /\ Log[k].s = Log[i].s
            /\ Log[e].ev = "ok" <=> (Log[x].ev = "ok" /\ Log[x].u = <<>>)
            /\ (Log[x].ev = "ok" /\ Log[x].u # <<>>) =>
                  /\ Log[e].ev = "nomatch"
                  /\ Log[e].by = Log[i].rule
                  /\ Log[e].u = Log[x].u

\* Literal("ab") called on "abc"
C8_Witness ==
    /\ pc = "called" /\ ~partial
    /\ rule = Literal(<<<<"a", "b">>>>, TRUE)
    /\ input = <<"a", "b", "c">>
    /\ result.kind = "nomatch"
    /\ result.rule = FullMatch(rule)
    /\ result.unparsed = <<"c">>

(***************************************************************************)
(* C9.  The concatenation invariant of Sequence.                           *)
(***************************************************************************)
\* what the call entered at k consumed has the length of what it matched
Faithful(k) == Len(Log[Exit(k)].m) + Len(Log[Exit(k)].u) = Len(Log[k].s)

\* the n-th child of the Sequence entered at i was given what the child
\* before it left unparsed (the first one the input of the Sequence)
Threaded(i) ==
    \A n \in 1..Cardinality(Children(i)) :
        /\ Log[Child(i, n)].rule = Log[i].rule.rules[n]
        /\ Log[Child(i, n)].s =
              IF n = 1 THEN Log[i].s ELSE Log[Exit(Child(i, n - 1))].u

\* C9 as stated: every Sequence.parse that returns has as matched text the
\* concatenation of its children's matched texts, and
\* len(matched) + len(unparsed) = len(s).
C9_Original ==
    \A i \in EntersOf("Sequence") :
        Log[Exit(i)].ev = "ok" =>
            /\ Log[Exit(i)].m = TextsFrom(i, i)
            /\ Faithful(i)

\* C9 as amended: every Sequence.parse that returns has run all its children
\* in order, each on what the one before left, its matched text is the
\* concatenation of its children's matched texts and its unparsed is what the
\* last child left; len(matched) + len(unparsed) = len(s) holds whenever it
\* holds of every child.
C9_Amended ==
    \A i \in EntersOf("Sequence") :
        Log[Exit(i)].ev = "ok" =>
            /\ Cardinality(Returned(i)) = Len(Log[i].rule.rules)
            /\ Threaded(i)
            /\ Log[Exit(i)].m = TextsFrom(i, i)
            /\ (\A k \in Children(i) : Faithful(k)) => Faithful(i)

\* Sequence(Ignore(L("z")), L("z")) on "zz" matches "z" and leaves nothing
C9_Witness ==
    /\ pc = "parsed"
    /\ rule = Sequence(<<Ignore(Lz), Lz>>)
    /\ input = <<"z", "z">>
    /\ result.kind = "ok"
    /\ MatchOf(result) = <<"z">>
    /\ UnparsedOf(result) = <<>>

(***************************************************************************)
(* C10.  The bounds of Repeat.                                             *)
(***************************************************************************)
\* the rule of the iterations after the first
Delimited(r) == IF r.delimiter = NoDelimiter THEN r.rule ELSE Add(r.delimiter, r.rule)

\* what the Repeat entered at i has left after its successful iterations
Remainder(i) ==
    IF Returned(i) = {} THEN Log[i].s
    ELSE Log[Exit(CHOOSE k \in Returned(i) : \A j \in Returned(i) : j <= k)].u

\* the iterations of the Repeat entered at i: at most max succeed, each is
\* run on what the one before left, and none is attempted after max is
\* reached, after a failed attempt or after the input is exhausted
Iterations(i) ==
    LET r == Log[i].rule
        n == Cardinality(Children(i))
    IN  /\ r.max # Unbounded => Cardinality(Returned(i)) <= r.max
        /\ r.max # Unbounded => n <= r.max
        /\ \A j \in 1..n :
              /\ Log[Child(i, j)].rule = IF j = 1 THEN r.rule ELSE Delimited(r)
              /\ Log[Child(i, j)].s =
                    IF j = 1 THEN Log[i].s ELSE Log[Exit(Child(i, j - 1))].u
              /\ j < n => /\ Log[Exit(Child(i, j))].ev = "ok"
                          /\ Log[Exit(Child(i, j))].u # <<>>

\* the Repeat entered at i stopped for one of the three reasons
Stopped(i) ==
    LET r == Log[i].rule
        n == Cardinality(Children(i))
    IN  \/ r.max # Unbounded /\ n = r.max
        \/ n > 0 /\ Log[Exit(Child(i, n))].ev = "nomatch"
        \/ n > 0 /\ Log[Exit(Child(i, n))].ev = "ok" /\ Log[Exit(Child(i, n))].u = <<>>

\* the outcome of the Repeat entered at i, given its k successful iterations
Outcome(i) ==
    LET r == Log[i].rule
        e == Exit(i)
    IN  IF Cardinality(Returned(i)) >= r.min
        THEN /\ Log[e].ev = "ok"
             /\ Log[e].m = TextsFrom(i, i)
             /\ Log[e].u = Remainder(i)
        ELSE /\ Log[e].ev = "nomatch"
             /\ Log[e].by = r
             /\ Log[e].u = Log[i].s

\* C10 as stated: every Repeat.parse makes at most max successful
\* iterations, stops when max is reached, an attempt fails or the input is
\* exhausted, returns iff k >= min and otherwise raises NoMatchError; the
\* matched text is the concatenation of the iterations' texts, the unparsed
\* what the last one left.
C10_Original ==
    \A i \in EntersOf("Repeat") : Iterations(i) /\ Stopped(i) /\ Outcome(i)

\* C10 as amended: the same, of every Repeat.parse that is not ended by a
\* RuntimeError (its own zero-length guard or one raised inside its rule).
C10_Amended ==
    \A i \in EntersOf("Repeat") :
        /\ Iterations(i)
        /\ Log[Exit(i)].ev # "fatal" => Stopped(i) /\ Outcome(i)

\* Repeat(Chars(digits, 1, 1), min=2, max=4) on "123456"
C10_Witness ==
    /\ pc = "parsed"
    /\ rule = Repeat(Digit, NoDelimiter, 2, 4)
    /\ input = <<"1", "2", "3", "4", "5", "6">>
    /\ result.kind = "ok"
    /\ MatchOf(result) = <<"1", "2", "3", "4">>
    /\ UnparsedOf(result) = <<"5", "6">>
    /\ Cardinality(Children(1)) = 4

(***************************************************************************)
(* C11.  The result of Mapping.                                            *)
(***************************************************************************)
\* the ordered mapping built from (key, value) pairs: a later pair with a key
\* already present replaces its value and keeps its position
FromPairs(pairs) == Update(EmptyContext, pairs)

\* the mapping from each context's key to its value
MappingOf(list, key_name, value_name) ==
    Ctx(FromPairs([j \in 1..Len(list) |->
            [k |-> Get(list[j], key_name), v |-> Get(list[j], value_name)]]))

\* every context of the list holds both names
Paired(list, key_name, value_name) ==
    \A j \in 1..Len(list) : Has(list[j], key_name) /\ Has(list[j], value_name)

\* C11 as stated: when the repetition of a Mapping succeeds and every
\* iteration context holds key_name and value_name, Mapping.parse returns and
\* the structured value is the ordered mapping from each iteration's key to
\* its value; no error other than NoMatchError or the zero-length
\* RuntimeError ends the parse.
C11_MappingResult ==
    (pc = "parsed" /\ rule.kind = "Mapping") =>
        LET rep == RepeatParse(rule, input, EmptyContext, 0)
        IN  /\ result.kind \in {"ok", "nomatch", "fatal"}
            /\ (rep.kind = "ok" /\ Paired(Get(rep.ctx, "_capturable").v,
                                          rule.key_name, rule.value_name)) =>
                  /\ result.kind = "ok"
                  /\ Get(result.ctx, "_capturable") =
                        MappingOf(Get(rep.ctx, "_capturable").v,
                                  rule.key_name, rule.value_name)

(***************************************************************************)
(* C12.  Reserved keys never reach the caller.                             *)
(***************************************************************************)
\* the contexts held in lists by the values of a context, at any depth, hold
\* no reserved key
RECURSIVE Stripped(_)
ListsStripped(context) ==
    \A n \in 1..Len(context) :
        context[n].v.t = "list" =>
            \A j \in 1..Len(context[n].v.v) : Stripped(context[n].v.v[j])

Stripped(context) ==
    /\ \A n \in 1..Len(context) : ~IsReserved(context[n].k)
    /\ ListsStripped(context)

\* C12: the mapping returned by a successful top-level call holds no reserved
\* key, nor does any per-iteration context inside a captured Repeat list, at
\* any depth (also in the context returned by parse, before it is cleaned);
\* the returned mapping holds every public key of the context FullMatch
\* returned, with its value, in the same order.
C12_ReservedStripped ==
    /\ (Done /\ result.kind = "ok") => ListsStripped(result.ctx)
    /\ (pc = "called" /\ result.kind = "ok") =>
          LET full == Parse(FullMatch(rule), input, EmptyContext, 0).ctx
              public == {n \in 1..Len(full) : ~IsReserved(full[n].k)}
          IN  /\ Stripped(result.ctx)
              /\ Len(result.ctx) = Cardinality(public)
              /\ \A n \in public :
                    result.ctx[Cardinality({h \in public : h <= n})] = full[n]

\* "z,z": two outer iterations, each holding the list of an inner Repeat
C12_Witness ==
    /\ pc = "called" /\ rule = Nested /\ input = <<"z", ",", "z">>
    /\ result.kind = "ok"
    /\ Keys(result.ctx) = {"out"}
    /\ Len(Get(result.ctx, "out").v) = 2
    /\ Get(result.ctx, "out").v[2] =
          <<[k |-> "in", v |-> List(<<(<<[k |-> "x", v |-> Str(<<"z">>)]>>)>>)]>>

(***************************************************************************)
(* Reading the outcome of a composition.                                   *)
(***************************************************************************)
\* an operator has been applied to the rule
Composed == pc \in {"composed", "built"}

\* the operator applied was op
Applied(op) == Composed /\ built.op.name = op

\* the selector of the indexing applied
Selector == built.op.arg

(***************************************************************************)
(* C13.  Flattening a Capture.                                             *)
(***************************************************************************)
\* C13 as stated: +c is a Capture with the rule, the name and the transform
\* of c and raw=true, c is left as it was, and on every input on which the
\* rule of c matches, +c binds under the name the transform of the matched
\* text.
C13_FlattenEquivalent ==
    Applied("pos") =>
        LET c == built.operand
            o == Alone(c.rule, input)
        IN  /\ rule = c
            /\ built.out.kind = "Capture"
            /\ built.out.rule = c.rule
            /\ built.out.name = c.name
            /\ built.out.transform = c.transform
            /\ built.out.raw
            /\ (pc = "built" /\ o.kind = "ok") =>
                  /\ result.kind = "ok"
                  /\ Get(result.ctx, c.name) =
                        IF c.transform = "None" THEN Get(o.ctx, "_match")
                        ELSE ApplyFn(c.transform, Get(o.ctx, "_match"))

(***************************************************************************)
(* C14.  The value a Capture binds.                                        *)
(***************************************************************************)
\* the context of the n-th iteration of the Repeat entered at i, as listed
\* by the Repeat: the iteration run on a context holding only the parent
\* (here the empty context of the top-level parse), without the parent and
\* without the reserved keys
IterationContext(i, n) ==
    LET k == Child(i, n)
        o == Parse(Log[k].rule, Log[k].s,
                   <<[k |-> "parent", v |-> Ctx(EmptyContext)]>>, 0)
    IN  Clean(Del(o.ctx, "parent"))

\* the value Capture r binds, given the context its rule returned
Selected(r, context) ==
    LET value == IF ~r.raw /\ Has(context, "_capturable")
                 THEN Get(context, "_capturable")
                 ELSE Get(context, "_match")
    IN  IF r.transform = "None" THEN value ELSE ApplyFn(r.transform, value)

\* C14: Capture fails as its rule fails; when the rule returns, Capture
\* returns the rule's context with one more binding, under name: the
\* transform (if any) of the rule's structured value if there is one and raw
\* is false, of the matched text otherwise.  For a Capture of a Repeat the
\* structured value is the list of the public contexts of the successful
\* iterations, in order; the raw capture binds the concatenated text.
C14_CaptureValue ==
    (pc = "parsed" /\ rule.kind = "Capture") =>
        LET o == Alone(rule.rule, input)
        IN  /\ result.kind = o.kind
            /\ o.kind = "ok" =>
                  /\ result.ctx = Put(o.ctx, rule.name, Selected(rule, o.ctx))
                  /\ (rule.rule.kind = "Repeat" /\ rule.transform = "None") =>
                        Get(result.ctx, rule.name) =
                            IF rule.raw THEN Str(TextsFrom(2, 2))
                            ELSE List([n \in 1..Cardinality(Returned(2)) |->
                                          IterationContext(2, n)])

\* Capture(Repeat(Capture(L("z"), "x"), delimiter=","), "out") on "z,z"
C14_Witness ==
    /\ pc = "parsed"
    /\ rule = Capture(Repeat(CapZ, Plain(<<",">>), 0, Unbounded), "out", "None", FALSE)
    /\ input = <<"z", ",", "z">>
    /\ result.kind = "ok"
    /\ Get(result.ctx, "out") =
          List(<<(<<[k |-> "x", v |-> Str(<<"z">>)]>>),
                 (<<[k |-> "x", v |-> Str(<<"z">>)]>>)>>)
    /\ MatchOf(result) = <<"z", ",", "z">>

(***************************************************************************)
(* C15.  Bounds of a Chars rule.                                           *)
(***************************************************************************)
\* the selector is an int, or a slice without step whose start is no str
Rebounding ==
    \/ Selector.kind = "int"
    \/ /\ Selector.kind = "slice"
       /\ Selector.start.kind # "str"
       /\ Selector.step = NoDelimiter

\* the bounds the selector asks for
AskedMin == IF Selector.kind = "int" THEN Selector.n ELSE StartOf(Selector)

AskedMax == IF Selector.kind = "int" THEN Selector.n ELSE StopOf(Selector)

\* the outcomes a and b agree: both return, with the same matched text and
\* the same unparsed remainder, or both raise NoMatchError
SameOutcome(a, b) ==
    /\ a.kind = b.kind
    /\ a.kind \in {"ok", "nomatch"}
    /\ a.kind = "ok" => MatchOf(a) = MatchOf(b) /\ UnparsedOf(a) = UnparsedOf(b)

\* C15: c[k] and c[m:n] of a Chars rule c are a Chars with the character sets
\* of c and the bounds asked for, c is left as it was, and on every input the
\* new rule has the outcome of Repeat(Chars(X, min=1, max=1), min=m, max=n).
C15_CharsBounds ==
    (Applied("item") /\ built.operand.kind = "Chars" /\ Rebounding) =>
        LET c == built.operand
        IN  /\ rule = c
            /\ built.out = Chars(c.chars, c.exclude, AskedMin, AskedMax)
            /\ pc = "built" =>
                  SameOutcome(result,
                      Alone(Repeat(Chars(c.chars, c.exclude, 1, 1), NoDelimiter,
                                   AskedMin, AskedMax), input))

\* Chars("z", min=2, max=3)[1:2] on "zzz" matches "zz"
C15_Witness ==
    /\ pc = "built"
    /\ built.op.name = "item"
    /\ built.operand = Chars(CharSet({"z"}), NoneSet, 2, 3)
    /\ Selector = Slice(Number(1), Number(2), NoDelimiter)
    /\ built.out.kind = "Chars" /\ built.out.min = 1 /\ built.out.max = 2
    /\ input = <<"z", "z", "z">>
    /\ result.kind = "ok"
    /\ MatchOf(result) = <<"z", "z">>
    /\ UnparsedOf(result) = <<"z">>

(***************************************************************************)
(* C16.  The item accessor.                                                *)
(***************************************************************************)
\* the selector asks for repetitions: an int, or a slice whose start is no str
Repeating == Selector.kind = "int" \/ (Selector.kind = "slice" /\ Selector.start.kind # "str")

\* the delimiter the selector gives
AskedDelimiter == IF Selector.kind = "slice" THEN Selector.step ELSE NoDelimiter

\* the outcomes a and b agree: the same kind of outcome and, when both
\* return, the same matched text and the same unparsed remainder
Agree(a, b) ==
    /\ a.kind = b.kind
    /\ a.kind = "ok" => MatchOf(a) = MatchOf(b) /\ UnparsedOf(a) = UnparsedOf(b)

\* C16 as stated: whatever the class of r, r[m:n:d] behaves as r repeated m
\* to n times with delimiter d, r[k] as r repeated exactly k times and r[:1]
\* as r made optional.
C16_ItemAccessor ==
    (pc = "built" /\ Applied("item") /\ Repeating) =>
        LET r == built.operand
        IN  IF AskedMin = 0 /\ AskedMax = 1
            THEN Agree(result, Alone(Optional(r, <<>>), input))
            ELSE Agree(result, Alone(Repeat(r, AskedDelimiter, AskedMin, AskedMax), input))

InOrder(i) ==
    LET n == Cardinality(Children(i))
    IN  /\ n <= Len(Log[i].rule.rules)
        /\ \A j \in 1..n :
              /\ Log[Child(i, j)].rule = Log[i].rule.rules[j]
              /\ Log[Child(i, j)].s = Log[i].s
              /\ j < n => Log[Exit(Child(i, j))].ev = "nomatch"

\* every alternative of the Alternatives entered at i was tried and failed
AllFailed(i) ==
    /\ Cardinality(Children(i)) = Len(Log[i].rule.rules)
    /\ \A k \in Children(i) : Log[Exit(k)].ev = "nomatch"

\* the Alternatives entered at i raises its own NoMatchError iff every
\* alternative failed
FailsWhenAllFail(i) ==
    LET e == Exit(i)
    IN  /\ Log[e].ev = "nomatch" <=> AllFailed(i)
        /\ Log[e].ev = "nomatch" => Log[e].by = Log[i].rule /\ Log[e].u = Log[i].s

\* the Alternatives entered at i returns what its alternative k returned
Returns(i, k) ==
    /\ Exit(i) = Exit(k) + 1
    /\ Log[Exit(i)].ev = "ok"
    /\ Log[Exit(i)].m = Log[Exit(k)].m
    /\ Log[Exit(i)].u = Log[Exit(k)].u

\* the alternative entered at k consumed nothing and is not the last one
EmptyNonFinal(i, k) ==
    /\ Log[Exit(k)].u = Log[i].s
    /\ Cardinality(Children(i)) < Len(Log[i].rule.rules)

\* the context a top-level Alternatives returns is the context of its last
\* call, run alone
WinnerAlone ==
    (pc = "parsed" /\ rule.kind = "Alternatives" /\ result.kind = "ok") =>
        result.ctx = Alone(rule.rules[Cardinality(Children(1))], input).ctx

\* C18 as stated: every Alternatives.parse tries its alternatives in declared
\* order, returns the result of the first that succeeds and tries none after
\* it; it fails iff every alternative fails, with NoMatchError(rule=the
\* Alternatives, unparsed=s).
C18_Original ==
    /\ WinnerAlone
    /\ \A i \in EntersOf("Alternatives") :
          /\ InOrder(i)
          /\ FailsWhenAllFail(i)
          /\ \A k \in Returned(i) : Returns(i, k)

\* C18 as amended: the same, but when the first alternative that succeeds
\* consumed nothing and is not the last one the Alternatives raises
\* RuntimeError instead of returning its result (and a RuntimeError raised
\* inside an alternative ends the Alternatives).
C18_Amended ==
    /\ WinnerAlone
    /\ \A i \in EntersOf("Alternatives") :
          /\ InOrder(i)
          /\ FailsWhenAllFail(i)
          /\ \A k \in Returned(i) :
                IF EmptyNonFinal(i, k)
                THEN Exit(i) = Exit(k) + 1 /\ Log[Exit(i)].ev = "fatal"
                ELSE Returns(i, k)

\* Alternatives(L("z"), Chars("z", min=0, max=None)) on "zz": the first
\* alternative wins with "z" though the second would match "zz"
C18_Witness ==
    /\ pc = "parsed"
    /\ rule = Alternatives(<<Lz, Cz0>>)
    /\ input = <<"z", "z">>
    /\ result.kind = "ok"
    /\ MatchOf(result) = <<"z">>
    /\ Cardinality(Children(1)) = 1
    /\ MatchOf(Alone(Cz0, input)) = <<"z", "z">>

(***************************************************************************)
(* C19.  A failing child of a Sequence.                                    *)
(***************************************************************************)
\* the NoMatchError of the child entered at k leaves the Sequence entered at
\* i as it is, and no child is run after k
Propagated(i, k) ==
    /\ Exit(i) = Exit(k) + 1
    /\ Log[Exit(i)].ev = "nomatch"
    /\ Log[Exit(i)].by = Log[Exit(k)].by
    /\ Log[Exit(i)].u = Log[Exit(k)].u

\* C19 as stated: every Sequence.parse runs its children in order, each on
\* what the one before left; when a child fails no later child is run and its
\* NoMatchError propagates as it is, its unparsed being the remainder handed
\* to that child.
C19_Original ==
    \A i \in EntersOf("Sequence") :
        /\ Threaded(i)
        /\ \A k \in Children(i) :
              Log[Exit(k)].ev = "nomatch" =>
                  /\ Propagated(i, k)
                  /\ Log[Exit(k)].u = Log[k].s

\* C19 as amended: the same, but the unparsed of the error is the remainder
\* handed to the failing child only when that child is itself the rejecting
\* rule and is not a FullMatch; an error that comes from inside the child
\* carries the position at which the rule inside it failed.
C19_Amended ==
    \A i \in EntersOf("Sequence") :
        /\ Threaded(i)
        /\ \A k \in Children(i) :
              Log[Exit(k)].ev = "nomatch" =>
                  /\ Propagated(i, k)
                  /\ (Log[Exit(k)].by = Log[k].rule /\ Log[k].rule.kind # "FullMatch") =>
                        Log[Exit(k)].u = Log[k].s

\* Sequence(L("z"), Sequence(Ignore(L("a")), L("z"))) on "zaa": the second
\* child is handed "aa", the error is that of the inner L("z") at "a"
C19_Witness ==
    /\ pc = "parsed"
    /\ rule = Sequence(<<Lz, Sequence(<<Ignore(La), Lz>>)>>)
    /\ input = <<"z", "a", "a">>
    /\ result.kind = "nomatch"
    /\ result.rule = Lz
    /\ result.unparsed = <<"a">>
    /\ Cardinality(Children(1)) = 2
    /\ Log[Child(1, 2)].s = <<"a", "a">>

(***************************************************************************)
(* C20.  Assert.                                                           *)
(***************************************************************************)
\* the condition of the Assert entered at i holds of what its rule returned
\* (the conditions of the model read the matched text only)
Satisfied(i) ==
    Holds(Log[i].rule.condition,
          <<[k |-> "_match", v |-> Str(Log[Exit(Child(i, 1))].m)]>>)

\* the call that made the call entered at i
Caller(i) == CHOOSE p \in Enters : i \in Children(p)

\* the NoMatchError of the Assert entered at i is caught by its caller p: an
\* Optional returns the empty match, an Alternatives goes on to its next
\* alternative or raises its own error, a Repeat ends its loop
Recovered(i, p) ==
    LET e == Exit(p)
        kind == Log[p].rule.kind
    IN  CASE kind = "Optional" ->
                /\ Log[e].ev = "ok" /\ Log[e].m = <<>> /\ Log[e].u = Log[p].s
          [] kind = "Alternatives" ->
                \/ \E k \in Children(p) : k > i
                \/ Log[e].ev = "nomatch" /\ Log[e].by = Log[p].rule
          [] kind \in {"Repeat", "Mapping"} ->
                /\ e = Exit(i) + 1
                /\ Log[e].ev # "fatal"
                /\ Log[e].ev = "nomatch" => Log[e].by = Log[p].rule
          [] OTHER -> TRUE

\* C20: every Assert.parse calls its rule once on its input.  If the rule
\* returns and the condition holds, Assert returns what the rule returned; if
\* the condition does not hold it raises NoMatchError(rule=the Assert,
\* unparsed=its own input s); an error of the rule passes unchanged.  The
\* error of an Assert is caught by an enclosing Optional, Alternatives or
\* Repeat like any NoMatchError.
C20_AssertGate ==
    /\ (pc = "parsed" /\ rule.kind = "Assert" /\ result.kind = "ok") =>
          result.ctx = Alone(rule.rule, input).ctx
    /\ \A i \in EntersOf("Assert") :
          LET k == Child(i, 1)
              x == Exit(k)
              e == Exit(i)
          IN  /\ Cardinality(Children(i)) = 1
              /\ Log[k].rule = Log[i].rule.rule
              /\ Log[k].s = Log[i].s
              /\ e = x + 1
              /\ IF Log[x].ev # "ok"
                 THEN Log[e].ev = Log[x].ev /\ Log[e].by = Log[x].by /\ Log[e].u = Log[x].u
                 ELSE IF Satisfied(i)
                 THEN Log[e].ev = "ok" /\ Log[e].m = Log[x].m /\ Log[e].u = Log[x].u
                 ELSE /\ Log[e].ev = "nomatch"
                      /\ Log[e].by = Log[i].rule
                      /\ Log[e].u = Log[i].s
              /\ (Log[e].ev = "nomatch" /\ Log[i].d > 0) => Recovered(i, Caller(i))

\* Optional(Assert(L("z"), never)) on "za": the rule matches "z", the Assert
\* fails at "za", the Optional returns the empty match
C20_Witness ==
    /\ pc = "parsed"
    /\ rule = Optional(AssertRule(Lz, "never"), <<>>)
    /\ input = <<"z", "a">>
    /\ result.kind = "ok"
    /\ MatchOf(result) = <<>>
    /\ UnparsedOf(result) = <<"z", "a">>
    /\ Log[Exit(Child(2, 1))].ev = "ok"
    /\ Log[Exit(2)].ev = "nomatch"
    /\ Log[Exit(2)].by = AssertRule(Lz, "never")
    /\ Log[Exit(2)].u = <<"z", "a">>

(***************************************************************************)
(* C21.  A failed trailing attempt of Repeat.                              *)
(***************************************************************************)
\* the attempts of the Repeat entered at i that raised NoMatchError
Failed(i) == {k \in Children(i) : Log[Exit(k)].ev = "nomatch"}

\* a context of the caller that binds "x" and "y" already
Seed == <<[k |-> "x", v |-> Str(<<"q">>)], [k |-> "y", v |-> Str(<<"q">>)]>>

\* C21: in every Repeat.parse, an attempt that fails after k successful
\* iterations was handed what iteration k left, and a Repeat that returns
\* then leaves exactly that unparsed (what the failed attempt matched,
\* its delimiter included, is not consumed) and matches the text of the k
\* iterations.  The structured list of a top-level Repeat has the k contexts
\* of the successful iterations, and the caller's context holds no key bound
\* during the iterations: it keeps the public keys it had.
C21_NoResidue ==
    /\ \A i \in EntersOf("Repeat") : \A k \in Failed(i) :
          /\ Log[k].s = Remainder(i)
          /\ Exit(i) = Exit(k) + 1
          /\ \A j \in Children(i) : j <= k
          /\ Log[Exit(i)].ev = "ok" =>
                /\ Log[Exit(i)].u = Log[k].s
                /\ Log[Exit(i)].m = TextsFrom(i, i)
    /\ (pc = "parsed" /\ rule.kind = "Repeat" /\ Failed(1) # {}
            /\ result.kind = "ok") =>
          /\ Get(result.ctx, "_capturable") =
                List([n \in 1..Cardinality(Returned(1)) |-> IterationContext(1, n)])
          /\ PublicKeys(result.ctx) = {}
          /\ Clean(Parse(rule, input, Seed, 0).ctx) = Seed

\* Repeat(Sequence(Capture(L("z"), "x"), L("a")), delimiter=",") on "za,z":
\* the second attempt matches "," and binds "x" before it fails at L("a")
C21_Witness ==
    /\ pc = "parsed"
    /\ rule = Repeat(Sequence(<<CapZ, La>>), Plain(<<",">>), 0, Unbounded)
    /\ input = <<"z", "a", ",", "z">>
    /\ result.kind = "ok"
    /\ UnparsedOf(result) = <<",", "z">>
    /\ Len(Get(result.ctx, "_capturable").v) = 1
    /\ Cardinality(Failed(1)) = 1
    /\ \E i \in EntersOf("Capture") :
            Log[i].s = <<"z">> /\ Log[Exit(i)].ev = "ok"

(***************************************************************************)
(* C22.  Monotonic consumption.                                            *)
(***************************************************************************)
\* str.endswith
EndsWith(s, suffix) ==
    /\ Len(suffix) <= Len(s)
    /\ SubSeq(s, Len(s) - Len(suffix) + 1, Len(s)) = suffix

\* the calls of the run that returned a context
Succeeded == {i \in Enters : Log[Exit(i)].ev = "ok"}

\* C22: every call of the run that returns, of a rule of any class at any
\* depth, leaves unparsed a suffix of the input it was given (so does the
\* rule an operator built); the remainder after each child of a Sequence and
\* after each iteration of a Repeat is a suffix of the remainder before it.
C22_Monotonic ==
    /\ \A i \in Succeeded : EndsWith(Log[i].s, Log[Exit(i)].u)
    /\ (pc \in {"parsed", "built"} /\ result.kind = "ok") =>
          EndsWith(input, UnparsedOf(result))
    /\ \A i \in EntersOf("Sequence") \cup EntersOf("Repeat") :
          \A k \in Returned(i) :
              /\ EndsWith(Log[i].s, Log[k].s)
              /\ EndsWith(Log[k].s, Log[Exit(k)].u)
              /\ \A j \in Returned(i) :
                    j < k => EndsWith(Log[Exit(j)].u, Log[Exit(k)].u)

\* Sequence(L("z"), Optional(L("z"))) on "zZ": the literals compare "zz",
\* the remainders are "Z" and ""
C22_Witness ==
    /\ pc = "parsed"
    /\ rule = Sequence(<<Lz, OptZ>>)
    /\ input = <<"z", "Z">>
    /\ result.kind = "ok"
    /\ Cardinality(Returned(1)) = 2
    /\ Log[Exit(Child(1, 1))].u = <<"Z">>
    /\ Log[Exit(Child(1, 2))].u = <<>>
    /\ MatchOf(result) = <<"z", "z">>

(***************************************************************************)
(* C23.  Optional.                                                         *)
(***************************************************************************)
\* C23: no Optional.parse of the run is left by a NoMatchError, whatever its
\* rule and input; when its rule returns, the Optional returns the rule's
\* matched text and unparsed remainder.  A top-level Optional whose rule
\* matches returns the very context the rule returns when run alone on the
\* same incoming context (matched text, remainder, structured value and
\* public keys), for an empty incoming context and for one that binds keys.
C23_OptionalTransparent ==
    /\ \A i \in EntersOf("Optional") :
          /\ Log[Exit(i)].ev # "nomatch"
          /\ Cardinality(Children(i)) = 1
          /\ \A k \in Returned(i) :
                /\ Log[k].rule = Log[i].rule.rule
                /\ Log[k].s = Log[i].s
                /\ Log[Exit(i)].ev = "ok"
                /\ Log[Exit(i)].m = Log[Exit(k)].m
                /\ Log[Exit(i)].u = Log[Exit(k)].u
    /\ (pc = "parsed" /\ rule.kind = "Optional"
            /\ Alone(rule.rule, input).kind = "ok") =>
          /\ result.kind = "ok"
          /\ result.ctx = Alone(rule.rule, input).ctx
          /\ Parse(rule, input, Seed, 0).ctx = Parse(rule.rule, input, Seed, 0).ctx

\* Optional(Repeat(Capture(L("z"), "x"), min=1)) on "zz": the list of two
\* contexts is the structured value of the Optional
C23_Witness ==
    /\ pc = "parsed"
    /\ rule = Optional(RepCapZ, <<>>)
    /\ input = <<"z", "z">>
    /\ result.kind = "ok"
    /\ MatchOf(result) = <<"z", "z">>
    /\ Len(Get(result.ctx, "_capturable").v) = 2
    /\ Log[Exit(2)].ev = "ok"

(***************************************************************************)
(* C24.  Literal.                                                          *)
(***************************************************************************)
\* the form of the literal l that a Literal with the given casefold compares
Compared(l, fold) == IF fold THEN casefold(l) ELSE l

\* C24 as stated: a Literal declared with the literals ls compares them, in
\* declared order, with the input (both case-folded unless casefold is
\* false); the first that is a prefix wins, also when a later one is a longer
\* prefix; len(li) characters of the original input are consumed, the matched
\* text is the compared form, no public key is bound; if none is a prefix the
\* parse fails with NoMatchError(rule=the Literal, unparsed=s).
C24_Literal ==
    (pc = "parsed" /\ rule.kind = "Literal") =>
        \A ls \in Declared :
            rule = Literal(ls, rule.casefold) =>
                LET cs == Compared(input, rule.casefold)
                    hits == {i \in 1..Len(ls) :
                                StartsWith(cs, Compared(ls[i], rule.casefold))}
                IN  IF hits = {}
                    THEN /\ result.kind = "nomatch"
                         /\ result.rule = rule
                         /\ result.unparsed = input
                    ELSE LET i == CHOOSE h \in hits : \A j \in hits : h <= j
                         IN  /\ result.kind = "ok"
                             /\ MatchOf(result) = Compared(ls[i], rule.casefold)
                             /\ UnparsedOf(result) = Drop(input, Len(ls[i]))
                             /\ PublicKeys(result.ctx) = {}

(***************************************************************************)
(* C25.  Chars.                                                            *)
(***************************************************************************)
\* the character c is allowed and not excluded
Member(r, c) ==
    /\ r.chars.none \/ c \in r.chars.set
    /\ r.exclude.none \/ c \notin r.exclude.set

\* the length of the longest prefix of s made of members only
Longest(r, s) ==
    CHOOSE n \in 0..Len(s) :
        /\ \A j \in 1..n : Member(r, s[j])
        /\ n = Len(s) \/ ~Member(r, s[n + 1])

\* the length Chars rule r consumes of s: the longest run, at most max
Clamped(r, s) ==
    IF r.max # Unbounded /\ r.max < Longest(r, s) THEN r.max ELSE Longest(r, s)

\* C25: every Chars.parse of the run, on its input s, consumes min(L, max)
\* characters (L when max is unbounded), L being the length of the longest
\* prefix of s whose characters are all allowed and not excluded, if that
\* length is at least min, and otherwise raises NoMatchError(rule=the Chars,
\* unparsed=s); with min=0 it never fails; it binds no key.
C25_Chars ==
    /\ \A i \in EntersOf("Chars") :
          LET r == Log[i].rule
              s == Log[i].s
              e == Exit(i)
          IN  /\ e = i + 1
              /\ IF Clamped(r, s) >= r.min
                 THEN /\ Log[e].ev = "ok"
                      /\ Log[e].m = Take(s, Clamped(r, s))
                      /\ Log[e].u = Drop(s, Clamped(r, s))
                 ELSE /\ Log[e].ev = "nomatch"
                      /\ Log[e].by = r
                      /\ Log[e].u = s
              /\ r.min = 0 => Log[e].ev = "ok"
    /\ (pc = "parsed" /\ rule.kind = "Chars" /\ result.kind = "ok") =>
          Keys(result.ctx) = {"_match", "_unparsed"}

\* Chars("za", exclude="a", min=1, max=1) on "zza": the run has length 2,
\* one character is consumed
C25_Witness ==
    /\ pc = "parsed"
    /\ rule = Chars(CharSet({"z", "a"}), CharSet({"a"}), 1, 1)
    /\ input = <<"z", "z", "a">>
    /\ Longest(rule, input) = 2
    /\ result.kind = "ok"
    /\ MatchOf(result) = <<"z">>
    /\ UnparsedOf(result) = <<"z", "a">>

(***************************************************************************)
(* C26.  No backtracking into a committed choice.                          *)
(***************************************************************************)
IsChoice(r) == r.kind \in {"Alternatives", "Repeat"}

\* the Alternatives entered at k tried no alternative after the one that
\* returned
Settled(k) ==
    /\ Cardinality(Returned(k)) = 1
    /\ \A a \in Children(k) : \A b \in Returned(k) : a <= b

\* C26: every Sequence.parse calls each of its children at most once, in
\* declared order.  When a child that is an Alternatives or a Repeat has
\* returned and a later child raises NoMatchError, the Sequence is left by
\* that error at once: no alternative after the one that succeeded is ever
\* tried, and the Repeat is not run again.  A top-level
\* Sequence(choice, C) whose choice matches s and whose C fails on what the
\* choice left fails with the error of C.
C26_NoBacktracking ==
    /\ \A i \in EntersOf("Sequence") :
          /\ Cardinality(Children(i)) <= Len(Log[i].rule.rules)
          /\ Threaded(i)
          /\ \A k \in Returned(i) : \A f \in Children(i) :
                (IsChoice(Log[k].rule) /\ k < f /\ Log[Exit(f)].ev = "nomatch") =>
                    /\ Exit(i) = Exit(f) + 1
                    /\ Log[Exit(i)].ev = "nomatch"
                    /\ Log[k].rule.kind = "Alternatives" => Settled(k)
    /\ (pc = "parsed" /\ rule.kind = "Sequence" /\ Len(rule.rules) = 2
            /\ IsChoice(rule.rules[1])) =>
          LET first == Alone(rule.rules[1], input)
              second == Alone(rule.rules[2], UnparsedOf(first))
          IN  (first.kind = "ok" /\ second.kind = "nomatch") =>
                  /\ result.kind = "nomatch"
                  /\ result.rule = second.rule
                  /\ result.unparsed = second.unparsed

\* Sequence(Alternatives(L("z"), L("za")), L("z")) on "zaz": L("z") wins and
\* the last child fails at "az", though L("za") followed by L("z") matches
C26_Witness ==
    /\ pc = "parsed"
    /\ rule = Sequence(<<Alternatives(<<Lz, Lza>>), Lz>>)
    /\ input = <<"z", "a", "z">>
    /\ result.kind = "nomatch"
    /\ result.unparsed = <<"a", "z">>
    /\ Cardinality(Children(2)) = 1
    /\ Alone(Sequence(<<Lza, Lz>>), input).kind = "ok"

(***************************************************************************)
(* C27.  Termination.                                                      *)
(***************************************************************************)
\* the rule tree r holds a Reference
RECURSIVE HasReference(_)
HasReference(r) ==
    CASE r.kind = "Reference" -> TRUE
      [] r.kind \in {"Sequence", "Alternatives"} ->
            \E n \in 1..Len(r.rules) : HasReference(r.rules[n])
      [] r.kind \in {"Repeat", "Mapping"} ->
            HasReference(r.rule) \/ HasReference(r.delimiter)
      [] r.kind \in {"FullMatch", "Optional", "Capture", "Transform", "Assert"} ->
            HasReference(r.rule)
      [] OTHER -> FALSE

\* every completed iteration of the Repeat entered at i left less than it
\* was given, or the Repeat raised RuntimeError at once
Shortens(i) ==
    \A k \in Returned(i) :
        \/ Len(Log[Exit(k)].u) < Len(Log[k].s)
        \/ Exit(i) = Exit(k) + 1 /\ Log[Exit(i)].ev = "fatal"

\* C27 as stated: for a rule tree without Reference, the top-level parse
\* ends with a result mapping, with NoMatchError or with the zero-length
\* RuntimeError, and with nothing else; every call entered is left, and every
\* completed iteration of a Repeat strictly shortens the remaining input or
\* the Repeat raises.
C27_Termination ==
    (Done /\ ~HasReference(rule)) =>
        /\ result.kind \in {"ok", "nomatch", "fatal"}
        /\ \A i \in Enters : \E j \in (i + 1)..Len(Log) : j = Exit(i)
        /\ \A i \in EntersOf("Repeat") \cup EntersOf("Mapping") : Shortens(i)

Textual(r) == r.kind \in {"Sequence", "Literal", "Chars"}

\* the Capture entered at i is the last call of the run that binds its name
LastBinding(i) ==
    \A j \in EntersOf("Capture") : j > i => Log[j].rule.name # Log[i].rule.name

\* C29: (b) no call of a run is given a context that holds a structured
\* value, and every Sequence that returns leaves none; (a) the rule of a
\* Capture, if it is a Sequence, a Literal or a Chars, returns a context
\* without structured value, also when a Repeat ran before it in the same
\* context and when the Sequence holds a Repeat, so that the Capture binds
\* the matched text (its transform, if it has one): a top-level Capture of
\* such a rule, and a Capture of such a rule that is a child of a top-level
\* Sequence, bind text under their name.
C29_NoStaleValue ==
    /\ \A i \in Enters : "_capturable" \notin Log[i].keys
    /\ \A i \in EntersOf("Sequence") : "_capturable" \notin Log[Exit(i)].keys
    /\ \A i \in EntersOf("Capture") : \A k \in Returned(i) :
          Textual(Log[i].rule.rule) => "_capturable" \notin Log[Exit(k)].keys
    /\ (pc = "parsed" /\ result.kind = "ok") =>
          \A i \in EntersOf("Capture") :
              (/\ Textual(Log[i].rule.rule)
               /\ i = 1 \/ (rule.kind = "Sequence" /\ i \in Children(1))
               /\ LastBinding(i)) =>
                  Get(result.ctx, Log[i].rule.name) =
                      IF Log[i].rule.transform = "None"
                      THEN Str(Log[Exit(i)].m)
                      ELSE ApplyFn(Log[i].rule.transform, Str(Log[Exit(i)].m))

\* Sequence(Repeat(Capture(L("z"), "x"), min=1), Capture(L("a"), "n")) on
\* "zza": the Repeat leaves a list of two contexts, "n" is bound to "a"
C29_Witness ==
    /\ pc = "parsed"
    /\ rule = Sequence(<<RepCapZ, Capture(La, "n", "None", FALSE)>>)
    /\ input = <<"z", "z", "a">>
    /\ result.kind = "ok"
    /\ "_capturable" \in Log[Exit(Child(1, 1))].keys
    /\ Get(result.ctx, "n") = Str(<<"a">>)
    /\ "_capturable" \notin Keys(result.ctx)

(***************************************************************************)
(* C30.  The scope of a Repeat iteration.                                  *)
(***************************************************************************)
\* the calls that were running when the call entered at j was made
Ancestors(j) == {a \in Enters : a < j /\ j < Exit(a)}

\* the names bound by the Captures of the iteration entered at k: those that
\* returned inside rules that returned, outside any Repeat of the iteration
Bound(k) ==
    {Log[j].rule.name :
        j \in {c \in EntersOf("Capture") :
                  /\ k <= c /\ c < Exit(k)
                  /\ Log[Exit(c)].ev = "ok"
                  /\ \A a \in Ancestors(c) :
                        a >= k => /\ Log[Exit(a)].ev = "ok"
                                  /\ Log[a].rule.kind \notin {"Repeat", "Mapping"}}}

\* the public keys among keys
Public(keys) == {k \in keys : ~IsReserved(k)}

\* C30 as stated: every Repeat.parse that returns leaves the public keys of
\* the enclosing context as they were; every iteration context holds the key
\* "parent" when it is removed; the list of a top-level Repeat has one entry
\* per iteration, which holds exactly the keys captured in that iteration and
\* never "parent"; the enclosing context gains no key and keeps the values
\* it had, and the result of the call holds none of the keys unless the
\* Repeat is captured.
C30_IterationScoping ==
    /\ \A i \in EntersOf("Repeat") :
          /\ Log[Exit(i)].ev = "ok" => Public(Log[Exit(i)].keys) = Public(Log[i].keys)
          /\ \A k \in Returned(i) : "parent" \in Log[Exit(k)].keys
    /\ (pc = "parsed" /\ rule.kind = "Repeat" /\ result.kind = "ok") =>
          LET list == Get(result.ctx, "_capturable").v
          IN  /\ Len(list) = Cardinality(Returned(1))
              /\ \A n \in 1..Len(list) :
                    /\ Keys(list[n]) = Bound(Child(1, n))
                    /\ "parent" \notin Keys(list[n])
              /\ Clean(result.ctx) = EmptyContext
              /\ Clean(Parse(rule, input, Seed, 0).ctx) = Seed
    /\ (pc = "called" /\ result.kind = "ok") =>
          /\ rule.kind = "Repeat" => result.ctx = EmptyContext
          /\ (rule.kind = "Capture" /\ rule.rule.kind = "Repeat") =>
                Keys(result.ctx) = {rule.name}

====
